---------------------------- MODULE Spec2Model ----------------------------
(***************************************************************************)
(* Cross-channel reliability bridge of openclaw: the retry executor, the   *)
(* idempotency ledger, the Chatwoot mirror with its contact coalescer, the *)
(* Meta webhook with its dedup table, and the handoff store.               *)
(*                                                                         *)
(* The program is single-process JavaScript: code between two awaits on    *)
(* I/O runs to completion, so one action below is one such stretch of a    *)
(* task (from the completion it was waiting for to its next suspension).   *)
(* Each component has its own specification; the variables of the other    *)
(* components stay unchanged under it.                                     *)
(***************************************************************************)
EXTENDS Integers, Sequences, FiniteSets, TLC

VARIABLES
  \* ---- comRetry (one execution of the retry executor) ----
  rPc,          \* "ocioso" | "chamando" | "emVoo" | "esperando" | "retornou" | "lancou"
  tentativa,    \* loop counter of comRetry
  ultimoErro,   \* last caught error (Nenhum before the first)
  chamadas,     \* number of invocations of fn()
  historico,    \* outcome of each invocation of fn(), in order
  esperas,      \* the waits (ms) passed to setTimeout, in order
  desfecho,     \* value returned, or error thrown, to the caller of comRetry
  rAgora        \* Date.now() of the retry execution

varsRetry == <<rPc, tentativa, ultimoErro, chamadas, historico, esperas, desfecho, rAgora>>

VARIABLES
  \* ---- api-meta channel: deliveries and the idempotency ledger ----
  idempotencyCache,     \* Map<string, IdempotencyEntry>: key -> entry or Nenhum
  idempotencyFilePath,  \* TRUE when register() found a stateDir
  idemArquivo,          \* content of api-meta-idempotency.json (Nenhum: no file)
  idemDisco,            \* TRUE while writeFileSync / renameSync in the stateDir succeed
  pedido,               \* the delivery requests (sendPayload / template endpoint)
  proxMessageId,        \* next message id the Graph API hands out
  eAgora,               \* Date.now()
  eAvancos              \* how often the clock was advanced

varsEntrega == <<idempotencyCache, idempotencyFilePath, idemArquivo, idemDisco, pedido,
                 proxMessageId, eAgora, eAvancos>>

VARIABLES
  \* ---- Chatwoot mirror: contacts, conversations, the in-flight registry ----
  espelho,          \* the mirror tasks (espelharMensagemEntrada / ...Saida)
  cacheContatos,    \* CacheTTL<string, number>: entries in insertion order
  cacheConversas,   \* CacheTTL<string, number>: entries in insertion order
  contatoEmVoo,     \* Map<string, Promise<number>>: key -> owning task, 0 = none
  remContatos,      \* Chatwoot: key -> ids of the contacts with this phone
  remConversas,     \* Chatwoot: contact id -> ids of its open conversations
  proxContatoId,    \* next contact id Chatwoot hands out
  proxConversaId,   \* next conversation id Chatwoot hands out
  cAgora,           \* Date.now()
  cAvancos          \* how often the clock was advanced

varsContato == <<espelho, cacheContatos, cacheConversas, contatoEmVoo, remContatos,
                 remConversas, proxContatoId, proxConversaId, cAgora, cAvancos>>

VARIABLES
  \* ---- handoff store ----
  hArquivo,     \* handoff.json: [estado: "ausente" | "valido" | "invalido", entries]
  hWin32,       \* process.platform === "win32"
  operacao,     \* the calls of activateHandoff / deactivateHandoff
  hAgora,       \* Date.now()
  hAvancos      \* how often the clock was advanced

varsHandoff == <<hArquivo, hWin32, operacao, hAgora, hAvancos>>

VARIABLES
  \* ---- Meta webhook ----
  processedIds,   \* Map<messageId, timestampMs>: id -> time, Indefinido = absent
  requisicao,     \* the HTTP requests handled by handleMetaWhatsAppWebhook
  resposta,       \* the status of the response written last, 0 before the first
  tratamento,     \* what the handler did last with a body it had read, in order
  inicios,        \* per message id, the times processarMensagemCloudApi began
  entregas,       \* per message id, the set of times an authenticated POST carried it
  pulos,          \* per message id, the set of times the loop skipped it as seen
  agente,         \* per message id, how often it was handed to processMessage
  emProcesso,     \* tasks awaiting processMessage
  wAgora,         \* Date.now()
  wAvancos        \* how often the clock was advanced

varsWebhook == <<processedIds, requisicao, resposta, tratamento, inicios, entregas, pulos,
                 agente, emProcesso,
                 wAgora, wAvancos>>

VARIABLES
  \* ---- one CacheTTL instance ----
  tMapa,        \* this.mapa, in insertion order
  tAgora,       \* Date.now()
  tAvancos,     \* how often the clock was advanced
  tOps,         \* how many of set, get, delete were called
  ultimoSet,    \* per key, the value and time of its last set; Nenhum once the
                \* key was deleted or evicted
  ultimaOp,     \* the last call: its kind and, of a set or a get, key and result

  \* ---- signature verifiers (one webhook delivery put to both) ----
  sRawBody,     \* the raw body of the delivery
  sSecret,      \* the secret the gateway holds
  sHeader,      \* the signature header of the delivery, a string of characters
  sRetorno,     \* per verifier, what its call did: Pendente before the call

  \* ---- a primary send (one call of sendText) ----
  envio,        \* the call: its position, destination and result

  \* ---- the phone normalizer applied to its own result ----
  telEntrada,   \* the string first put to normalizarTelefoneE164
  telSaidas,    \* what each application returned, in order
  telMascara,   \* mascararTelefone of the normalized number, <<>> before the call

  \* ---- the handoff webhook of Chatwoot ----
  evento,       \* the call of processarEventoHandoffChatwootAssinado under way

  \* ---- the contact profile cache (buscarPerfilContato) ----
  perfilCache,      \* cache: Map<string, EntradaCache>, in insertion order
  ultimaLimpeza,    \* time of the last periodic cleanup
  cacheTtlMinutes,  \* contact lookup TTL of the configuration, Indefinido if not set
  chamada,          \* the calls of buscarPerfilContato
  ultimoGuardado,   \* per phone, status and time of the last cache.set, or Nenhum
  pAgora,           \* Date.now()
  pAvancos          \* how often the clock was advanced

varsCache == <<tMapa, tAgora, tAvancos, tOps, ultimoSet, ultimaOp>>

varsAssinatura == <<sRawBody, sSecret, sHeader, sRetorno>>

varsEnvio == <<envio>>

varsTelefone == <<telEntrada, telSaidas, telMascara>>

varsEvento == <<evento>>

varsPerfil == <<perfilCache, ultimaLimpeza, cacheTtlMinutes, chamada, ultimoGuardado, pAgora,
                pAvancos>>

\* The variables an action of one component leaves alone.
foraRetry == <<varsEntrega, varsContato, varsHandoff, varsWebhook, varsCache,
  varsAssinatura, varsEnvio, varsTelefone, varsEvento, varsPerfil>>
foraEntrega == <<varsRetry, varsContato, varsHandoff, varsWebhook, varsCache,
  varsAssinatura, varsEnvio, varsTelefone, varsEvento, varsPerfil>>
foraContato == <<varsRetry, varsEntrega, varsHandoff, varsWebhook, varsCache,
  varsAssinatura, varsEnvio, varsTelefone, varsEvento, varsPerfil>>
foraHandoff == <<varsRetry, varsEntrega, varsContato, varsWebhook, varsCache,
  varsAssinatura, varsEnvio, varsTelefone, varsEvento, varsPerfil>>
foraWebhook == <<varsRetry, varsEntrega, varsContato, varsHandoff, varsCache,
  varsAssinatura, varsEnvio, varsTelefone, varsEvento, varsPerfil>>
foraCache == <<varsRetry, varsEntrega, varsContato, varsHandoff, varsWebhook,
  varsAssinatura, varsEnvio, varsTelefone, varsEvento, varsPerfil>>
foraAssinatura == <<varsRetry, varsEntrega, varsContato, varsHandoff, varsWebhook,
  varsCache, varsEnvio, varsTelefone, varsEvento, varsPerfil>>
foraEspelhamento == <<varsRetry, varsEntrega, varsHandoff, varsWebhook, varsCache,
  varsAssinatura, varsTelefone, varsEvento, varsPerfil>>
\* The handoff webhook writes the handoff file and the conversation cache.
foraEvento == <<varsRetry, varsEntrega, varsWebhook, varsCache, varsAssinatura, varsEnvio,
  varsTelefone, espelho, cacheContatos, contatoEmVoo, remContatos, remConversas,
  proxContatoId, proxConversaId, cAgora, cAvancos, hWin32, operacao, hAgora, hAvancos,
  varsPerfil>>
foraPerfil == <<varsRetry, varsEntrega, varsContato, varsHandoff, varsWebhook, varsCache,
  varsAssinatura, varsEnvio, varsTelefone, varsEvento>>
foraTelefone == <<varsRetry, varsEntrega, varsContato, varsHandoff, varsWebhook,
  varsCache, varsAssinatura, varsEnvio, varsEvento, varsPerfil>>

-----------------------------------------------------------------------------
(* Values *)

Nenhum == [tipo |-> "nenhum"]

\* `undefined` of extrairRetryAfterMs (a defined result is always > 0).
Indefinido == -1

MAX_RETRIES == 3
RETRY_BASE_MS == 1000
RETRY_AFTER_CAP_MS == 60000

TRANSIENT_STATUS_CODES == {429, 500, 502, 503, 504}

\* The alternatives of /\b(429|500|502|503|504)\b/ as words of a message.
PalavrasStatusTransiente == {"429", "500", "502", "503", "504"}

\* The alternatives of /ETIMEDOUT|ECONNRESET|ECONNREFUSED|AbortError|rate\s*limit/i.
PalavrasAssinatura == {"ETIMEDOUT", "ECONNRESET", "ECONNREFUSED", "AbortError", "rate limit"}

\* The decimal text of an HTTP status, as it appears inside an error message.
PalavraDoStatus(s) ==
  CASE s = 400 -> "400" [] s = 401 -> "401" [] s = 404 -> "404"
    [] s = 429 -> "429" [] s = 500 -> "500" [] s = 502 -> "502"
    [] s = 503 -> "503" [] s = 504 -> "504" [] OTHER -> "0"

SemRetryAfter == [tipo |-> "ausente", val |-> 0]

(***************************************************************************)
(* An error value.  id: which invocation raised it (two errors of two      *)
(* invocations are different objects).  nome: Error.name.  http: the       *)
(* status of the HTTP response that caused it, 0 when no response arrived  *)
(* (the code never reads it: it is what really happened).  status: the     *)
(* number found by e.status ?? e.statusCode ?? e.response.status, 0 when   *)
(* there is none.  texto: the words of Error.message.  retryAfter: the     *)
(* retry-after header of e.response.headers.  cabecalho: the Retry-After   *)
(* header of the HTTP response that caused the error (like http, what      *)
(* really happened, whether or not the error object exposes it).           *)
(***************************************************************************)
Erro(id, nome, http, status, texto, ra, cabecalho) ==
  [tipo |-> "erro", id |-> id, nome |-> nome, http |-> http, status |-> status,
   texto |-> texto, retryAfter |-> ra, cabecalho |-> cabecalho]

\* throw new Error(`Graph API ${res.status}: ${body}`): no status property,
\* no response object; the status and the response body are in the message,
\* the headers of the response are dropped.
ErroGraphApi(id, httpStatus, corpo, cabecalho) ==
  Erro(id, "Error", httpStatus, 0, {PalavraDoStatus(httpStatus)} \cup corpo, SemRetryAfter,
       cabecalho)

\* fetch aborted by the AbortController after GRAPH_API_TIMEOUT_MS.
ErroAbort(id) ==
  Erro(id, "AbortError", 0, 0, {"This operation was aborted"}, SemRetryAfter, SemRetryAfter)

\* An error of an HTTP client that sets err.status and err.response.headers.
ErroComStatus(id, httpStatus, ra) ==
  Erro(id, "Error", httpStatus, httpStatus, {"request failed"}, ra, ra)

\* A socket-level failure: the message carries the errno name.
ErroDeRede(id, errno) ==
  Erro(id, "Error", 0, 0, {errno}, SemRetryAfter, SemRetryAfter)

Sucesso(id) == [tipo |-> "ok", messageId |-> id]

-----------------------------------------------------------------------------
(* isTransientError, extrairRetryAfterMs *)

isTransientError(err) ==
  \/ err.status \in TRANSIENT_STATUS_CODES
  \/ err.texto \cap PalavrasStatusTransiente # {}
  \/ err.texto \cap PalavrasAssinatura # {}

Min(a, b) == IF a < b THEN a ELSE b

extrairRetryAfterMs(err, agora) ==
  LET h == err.retryAfter IN
  CASE h.tipo = "ausente" -> Indefinido
    [] h.tipo = "segundos" ->
         \* Number(retryAfter) > 0; a value <= 0 ends undefined through Date.parse
         IF h.val > 0 THEN Min(h.val * 1000, RETRY_AFTER_CAP_MS) ELSE Indefinido
    [] h.tipo = "data" ->
         LET diff == h.val - agora IN
         IF diff > 0 THEN Min(diff, RETRY_AFTER_CAP_MS) ELSE Indefinido
    [] OTHER -> Indefinido

\* comRetryCatch with the exponent one too high (2s, 4s instead of 1s, 2s).
comRetryCatch_ExpoenteDeslocado(err, t, agora) ==
  IF ~isTransientError(err) \/ t = MAX_RETRIES - 1
  THEN [acao |-> "throw", espera |-> 0]
  ELSE LET retryAfter == extrairRetryAfterMs(err, agora) IN
       [acao |-> "wait",
        espera |-> IF retryAfter # Indefinido THEN retryAfter
                   ELSE RETRY_BASE_MS * (2 ^ (t + 1))]

\* comRetryCatch with the last-attempt test off by one (t = MAX_RETRIES).
comRetryCatch_TetoDeslocado(err, t, agora) ==
  IF ~isTransientError(err) \/ t = MAX_RETRIES
  THEN [acao |-> "throw", espera |-> 0]
  ELSE LET retryAfter == extrairRetryAfterMs(err, agora) IN
       [acao |-> "wait",
        espera |-> IF retryAfter # Indefinido THEN retryAfter
                   ELSE RETRY_BASE_MS * (2 ^ t)]

(***************************************************************************)
(* The catch block of comRetry for the error of attempt `t`: rethrow, or   *)
(* the wait before the next attempt.                                       *)
(***************************************************************************)
comRetryCatch(err, t, agora) ==
  IF ~isTransientError(err) \/ t = MAX_RETRIES - 1
  THEN [acao |-> "throw", espera |-> 0]
  ELSE LET retryAfter == extrairRetryAfterMs(err, agora) IN
       [acao |-> "wait",
        espera |-> IF retryAfter # Indefinido THEN retryAfter
                   ELSE RETRY_BASE_MS * (2 ^ t)]

-----------------------------------------------------------------------------
(* comRetry: one execution of the retry executor around an operation fn    *)
(* whose outcomes the environment chooses.                                 *)

CorposDeResposta == {{}, {"500"}, {"rate limit"}, {"invalid parameter"}}

CabecalhosRetryAfter(agora) ==
  { SemRetryAfter,
    [tipo |-> "segundos", val |-> 2],
    [tipo |-> "segundos", val |-> 120],
    [tipo |-> "segundos", val |-> 0],
    [tipo |-> "data", val |-> agora + 30000],
    [tipo |-> "data", val |-> agora + 90000],
    [tipo |-> "data", val |-> agora - 1000],
    [tipo |-> "lixo", val |-> 0] }

\* What the n-th invocation of fn() may end with.
ResultadosDeFn(n, agora) ==
  {Sucesso(n)}
    \cup {ErroGraphApi(n, s, c, SemRetryAfter) : s \in {400, 429, 503}, c \in CorposDeResposta}
    \cup {ErroGraphApi(n, 429, {}, h) : h \in CabecalhosRetryAfter(agora)}
    \cup {ErroComStatus(n, 429, h) : h \in CabecalhosRetryAfter(agora)}
    \cup {ErroComStatus(n, s, SemRetryAfter) : s \in {400, 503}}
    \cup {ErroDeRede(n, "ETIMEDOUT"), ErroAbort(n)}

InitRetry ==
  /\ rPc = "ocioso"
  /\ tentativa = 0
  /\ ultimoErro = Nenhum
  /\ chamadas = 0
  /\ historico = <<>>
  /\ esperas = <<>>
  /\ desfecho = Nenhum
  /\ rAgora = 0

\* comRetry(fn, descricao) is called: tentativa = 0, the loop is entered.
RetryIniciar ==
  /\ rPc = "ocioso"
  /\ rPc' = "chamando"
  /\ tentativa' = 0
  /\ UNCHANGED <<ultimoErro, chamadas, historico, esperas, desfecho, rAgora>>
  /\ UNCHANGED foraRetry

\* `await fn()`: the operation is invoked and the executor suspends.
RetryInvocar ==
  /\ rPc = "chamando"
  /\ rPc' = "emVoo"
  /\ chamadas' = chamadas + 1
  /\ UNCHANGED <<tentativa, ultimoErro, historico, esperas, desfecho, rAgora>>
  /\ UNCHANGED foraRetry

\* fn() settles: return on success, else the catch block.
RetryResposta ==
  /\ rPc = "emVoo"
  /\ \E o \in ResultadosDeFn(chamadas, rAgora) :
       /\ historico' = Append(historico, o)
       /\ IF o.tipo = "ok"
          THEN /\ rPc' = "retornou"
               /\ desfecho' = o
               /\ UNCHANGED <<ultimoErro, esperas>>
          ELSE LET d == comRetryCatch(o, tentativa, rAgora) IN
               /\ ultimoErro' = o
               /\ IF d.acao = "throw"
                  THEN /\ rPc' = "lancou"
                       /\ desfecho' = o
                       /\ UNCHANGED esperas
                  ELSE /\ rPc' = "esperando"
                       /\ esperas' = Append(esperas, d.espera)
                       /\ UNCHANGED desfecho
  /\ UNCHANGED <<tentativa, chamadas, rAgora>>
  /\ UNCHANGED foraRetry

\* The setTimeout of the wait fires: tentativa++, then the loop test; leaving
\* the loop throws ultimoErro.
RetryAcordar ==
  /\ rPc = "esperando"
  /\ rAgora' = rAgora + esperas[Len(esperas)]
  /\ tentativa' = tentativa + 1
  /\ IF tentativa + 1 < MAX_RETRIES
     THEN rPc' = "chamando" /\ UNCHANGED desfecho
     ELSE rPc' = "lancou" /\ desfecho' = ultimoErro
  /\ UNCHANGED <<ultimoErro, chamadas, historico, esperas>>
  /\ UNCHANGED foraRetry

RetryActions == RetryIniciar \/ RetryInvocar \/ RetryResposta \/ RetryAcordar

-----------------------------------------------------------------------------
(* api-meta channel: the idempotency ledger *)

IDEMPOTENCY_TTL_MS == 86400000

NumPedidos == 2
MaxAvancos == 1

Pedidos == 1..NumPedidos
\* The idempotency keys callers send: any non-empty string is one, among them
\* the name of the accessor property of Object.prototype.
ChaveProto == "__proto__"
Chaves == {"k1", ChaveProto}
SemChave == "-"

\* The clock advances by one of these amounts: to just before, and to exactly,
\* the expiry of an entry recorded at the previous instant.
PassosDeTempo == {IDEMPOTENCY_TTL_MS - 1, IDEMPOTENCY_TTL_MS}

LedgerVazio == [k \in Chaves |-> Nenhum]

\* verificarIdempotency with the expiry comparison inverted.
verificarIdempotency_TtlInvertido(cache, key, agora) ==
  LET cached == cache[key] IN
  IF cached = Nenhum THEN [hit |-> Nenhum, cache |-> cache]
  ELSE IF agora - cached.timestamp < IDEMPOTENCY_TTL_MS
       THEN [hit |-> Nenhum, cache |-> [cache EXCEPT ![key] = Nenhum]]
       ELSE [hit |-> cached, cache |-> cache]

\* verificarIdempotency with an entry kept until it is older than the TTL.
verificarIdempotency_LimiteExclusivo(cache, key, agora) ==
  LET cached == cache[key] IN
  IF cached = Nenhum THEN [hit |-> Nenhum, cache |-> cache]
  ELSE IF agora - cached.timestamp > IDEMPOTENCY_TTL_MS
       THEN [hit |-> Nenhum, cache |-> [cache EXCEPT ![key] = Nenhum]]
       ELSE [hit |-> cached, cache |-> cache]

\* Date.now() - timestamp >= IDEMPOTENCY_TTL_MS; with an undefined timestamp
\* the difference is NaN and the comparison false.
IdempotencyExpirou(timestamp, agora) ==
  IF timestamp = Indefinido THEN FALSE ELSE agora - timestamp >= IDEMPOTENCY_TTL_MS

\* verificarIdempotency(key): the entry found (or Nenhum) and the Map afterwards.
verificarIdempotency(cache, key, agora) ==
  LET cached == cache[key] IN
  IF cached = Nenhum THEN [hit |-> Nenhum, cache |-> cache]
  ELSE IF IdempotencyExpirou(cached.timestamp, agora)
       THEN [hit |-> Nenhum, cache |-> [cache EXCEPT ![key] = Nenhum]]
       ELSE [hit |-> cached, cache |-> cache]

\* The object salvarIdempotencyEmDisco builds with `obj[k] = v` on `{}` and hands
\* to JSON.stringify, as the table of its own properties.  The assignment to
\* "__proto__" runs the setter of Object.prototype (v is an object: it becomes
\* the prototype of obj) and creates no own property.
ObjetoDoMapa(cache) ==
  [k \in Chaves |-> IF k = ChaveProto THEN Nenhum ELSE cache[k]]

\* salvarIdempotencyEmDisco: writeFileSync(tmp) + renameSync(tmp, file), both
\* synchronous; without a path nothing is written.  The file holds the JSON
\* text of the object, here the table JSON.parse gives back for it.  When
\* one of the two calls throws, the catch block logs and the file stays.
salvarIdempotencyEmDisco(cache, caminho, disco, arquivo) ==
  IF caminho /\ disco THEN ObjetoDoMapa(cache) ELSE arquivo

\* Contents of the file no save of the channel has written: one that
\* readFileSync cannot read, a text that is not JSON, the JSON text `null`.
ArquivoIlegivel == [tipo |-> "ilegivel"]
ArquivoNaoJson == [tipo |-> "naoJson"]
ArquivoJsonNull == [tipo |-> "null"]

\* An entry of a JSON object that is not an IdempotencyEntry (`{}`, a number):
\* its messageId, channel and timestamp are undefined.
EntradaSemCampos ==
  [messageId |-> Indefinido, channel |-> "undefined", timestamp |-> Indefinido]

\* Valid JSON of another shape: the object {"k1": {}}.
ArquivoFormaErrada == [k \in Chaves |-> IF k = "k1" THEN EntradaSemCampos ELSE Nenhum]

\* carregarIdempotencyDoDisco: without a path or without a file the Map stays
\* as it is; readFileSync, JSON.parse or Object.entries (of null) throwing
\* leaves a new Map; else it is new Map(Object.entries(JSON.parse(raw))).
carregarIdempotencyDoDisco(cache, caminho, arquivo) ==
  IF ~caminho THEN cache
  ELSE IF arquivo = Nenhum THEN cache
  ELSE IF arquivo \in {ArquivoIlegivel, ArquivoNaoJson, ArquivoJsonNull} THEN LedgerVazio
  ELSE arquivo

\* registrarIdempotency(key, result): idempotencyCache.set, then the save.
registrarIdempotency(cache, key, messageId, agora) ==
  [cache EXCEPT ![key] =
     [messageId |-> messageId, channel |-> "api-meta", timestamp |-> agora]]

\* The keys limparIdempotencyExpiradas deletes.
ChavesExpiradas(cache, agora) ==
  {k \in Chaves : cache[k] # Nenhum /\ IdempotencyExpirou(cache[k].timestamp, agora)}

(***************************************************************************)
(* A delivery request.  tipo: "sendPayload" or "endpoint" (the handler of  *)
(* /hooks/api-meta/template).  chave: its idempotency key.  tentativa: the *)
(* loop counter of its comRetry (gone when the request has ended).         *)
(* enviou: the Graph API send was invoked for it.  espelhos: calls of      *)
(* espelharSeguro.  entregues: sends the Graph API accepted.  quando: the  *)
(* time of the accepted send.  precedentes: the requests with the same key *)
(* whose send had been accepted, less than the TTL before, when this       *)
(* request began.                                                          *)
(***************************************************************************)
PedidoOcioso ==
  [pc |-> "ocioso", tipo |-> "-", chave |-> SemChave,
   tentativa |-> 0, enviou |-> FALSE, entregues |-> 0, quando |-> 0, espelhos |-> 0,
   precedentes |-> {}, resultado |-> Nenhum]

\* The payloads of sendPayload: a template, a media with a caption, a text, or
\* none of them (every one that is sent is mirrored after the send).
Payloads == {"template", "midia", "texto", "vazio"}

\* What one Graph API send may end with (error id n, message id m).
ResultadosDoEnvio(n, m) ==
  {Sucesso(m), ErroGraphApi(n, 503, {}, SemRetryAfter), ErroGraphApi(n, 400, {}, SemRetryAfter)}

RespostaOk(channel, messageId, dedup) ==
  [tipo |-> "ok", channel |-> channel, messageId |-> messageId, deduplicated |-> dedup]

\* The requests with key `chave` that ended with an accepted send less than
\* the TTL ago.
Precedentes(chave) ==
  {q \in Pedidos : /\ pedido[q].pc = "feito"
                   /\ pedido[q].chave = chave
                   /\ pedido[q].entregues > 0
                   /\ eAgora - pedido[q].quando < IDEMPOTENCY_TTL_MS}

\* Requests are interchangeable: request p begins after requests 1..p-1 have.
ProximoPedido(p) ==
  pedido[p].pc = "ocioso" /\ \A q \in 1..(p - 1) : pedido[q].pc # "ocioso"

\* The state after the module was loaded and register() has run: the path is
\* set when the runtime has a stateDir, and the file found there was loaded.
InitEntregaDe(caminhos, arquivos, discos) ==
  /\ idempotencyFilePath \in caminhos
  /\ idemArquivo \in arquivos
  /\ idemDisco \in discos
  /\ idempotencyCache =
       carregarIdempotencyDoDisco(LedgerVazio, idempotencyFilePath, idemArquivo)
  /\ pedido = [p \in Pedidos |-> PedidoOcioso]
  /\ proxMessageId = 1
  /\ eAgora = 0
  /\ eAvancos = 0

\* The same with no file yet and a disk that takes the writes.
InitEntregaCom(caminhos) == InitEntregaDe(caminhos, {Nenhum}, {TRUE})

InitEntrega == InitEntregaCom(BOOLEAN)

(***************************************************************************)
(* sendPayload(ctx) up to its first suspension: the idempotency check,     *)
(* then the choice of template / media / text and the first invocation of  *)
(* the send inside comRetry.                                               *)
(***************************************************************************)
SendPayloadIniciar(p) ==
  /\ ProximoPedido(p)
  /\ \E chave \in Chaves \cup {SemChave}, pl \in Payloads :
       LET v == IF chave = SemChave THEN [hit |-> Nenhum, cache |-> idempotencyCache]
                ELSE verificarIdempotency(idempotencyCache, chave, eAgora)
           base == [pedido[p] EXCEPT !.tipo = "sendPayload", !.chave = chave,
                                     !.precedentes = IF chave = SemChave THEN {}
                                                     ELSE Precedentes(chave)]
       IN
       /\ idempotencyCache' = v.cache
       /\ IF v.hit # Nenhum
          THEN pedido' = [pedido EXCEPT ![p] =
                 [base EXCEPT !.pc = "feito",
                              !.resultado = RespostaOk(v.hit.channel, v.hit.messageId, TRUE)]]
          ELSE IF pl = "vazio"
          THEN pedido' = [pedido EXCEPT ![p] =
                 [base EXCEPT !.pc = "feito",
                              !.resultado = Erro(0, "Error", 0, 0, {"nada a enviar"}, SemRetryAfter,
                                                  SemRetryAfter)]]
          ELSE pedido' = [pedido EXCEPT ![p] =
                 [base EXCEPT !.pc = "enviando", !.tentativa = 0, !.enviou = TRUE]]
  /\ UNCHANGED <<idempotencyFilePath, idemDisco, idemArquivo, proxMessageId, eAgora, eAvancos>>
  /\ UNCHANGED foraEntrega

(***************************************************************************)
(* handleTemplateEndpoint after the body was read: the validations (a      *)
(* request failing one is answered 4xx/5xx and ends), the idempotency      *)
(* check, then the first invocation of enviarTemplateCloudApi.             *)
(***************************************************************************)
EndpointIniciar(p) ==
  /\ ProximoPedido(p)
  /\ \E chave \in Chaves \cup {SemChave}, valido \in BOOLEAN :
       LET v == IF chave = SemChave \/ ~valido
                THEN [hit |-> Nenhum, cache |-> idempotencyCache]
                ELSE verificarIdempotency(idempotencyCache, chave, eAgora)
           base == [pedido[p] EXCEPT !.tipo = "endpoint",
                                     !.chave = IF valido THEN chave ELSE SemChave,
                                     !.precedentes = IF valido /\ chave # SemChave
                                                     THEN Precedentes(chave) ELSE {}]
       IN
       /\ idempotencyCache' = v.cache
       /\ IF ~valido
          THEN pedido' = [pedido EXCEPT ![p] =
                 [base EXCEPT !.pc = "feito", !.resultado = [tipo |-> "http", status |-> 400]]]
          ELSE IF v.hit # Nenhum
          THEN pedido' = [pedido EXCEPT ![p] =
                 [base EXCEPT !.pc = "feito",
                              !.resultado = RespostaOk("", v.hit.messageId, TRUE)]]
          ELSE pedido' = [pedido EXCEPT ![p] =
                 [base EXCEPT !.pc = "enviando", !.tentativa = 0, !.enviou = TRUE]]
  /\ UNCHANGED <<idempotencyFilePath, idemDisco, idemArquivo, proxMessageId, eAgora, eAvancos>>
  /\ UNCHANGED foraEntrega

\* espelharSeguro called whatever comRetry settled with.
EspelhosAposEnvio_TambemNaFalha(o) == 1

\* The calls of espelharSeguro that follow one settled comRetry: the call
\* stands after the await, so it is reached on a result and skipped when
\* comRetry rethrows.
EspelhosAposEnvio(o) == IF o.tipo = "ok" THEN 1 ELSE 0

\* EntregaResposta recording the key also when comRetry rethrows.
EntregaResposta_RegistraFalha(p) ==
  /\ pedido[p].pc = "enviando"
  /\ \E o \in ResultadosDoEnvio(0, proxMessageId) :
       IF o.tipo = "ok"
       THEN LET r == pedido[p]
                novo == IF r.chave = SemChave THEN idempotencyCache
                        ELSE registrarIdempotency(idempotencyCache, r.chave, o.messageId, eAgora)
            IN
            /\ proxMessageId' = proxMessageId + 1
            /\ idempotencyCache' = novo
            /\ idemArquivo' = IF r.chave = SemChave THEN idemArquivo
                              ELSE salvarIdempotencyEmDisco(novo, idempotencyFilePath, idemDisco, idemArquivo)
            /\ pedido' = [pedido EXCEPT ![p] =
                 [r EXCEPT !.pc = "feito", !.tentativa = 0,
                           !.entregues = r.entregues + 1,
                           !.quando = eAgora,
                           !.espelhos = r.espelhos + 1,
                           !.resultado = RespostaOk(IF r.tipo = "sendPayload" THEN "api-meta" ELSE "",
                                                    o.messageId, FALSE)]]
       ELSE LET d == comRetryCatch(o, pedido[p].tentativa, eAgora) IN
            /\ IF d.acao = "throw"
               THEN pedido' = [pedido EXCEPT ![p].pc = "feito", ![p].tentativa = 0,
                                             ![p].resultado =
                                               IF pedido[p].tipo = "sendPayload" THEN o
                                               ELSE [tipo |-> "http", status |-> 502]]
               ELSE pedido' = [pedido EXCEPT ![p].pc = "esperando"]
            /\ LET novo == IF d.acao = "throw" /\ pedido[p].chave # SemChave
                           THEN registrarIdempotency(idempotencyCache, pedido[p].chave, 0,
                                                     eAgora)
                           ELSE idempotencyCache
               IN /\ idempotencyCache' = novo
                  /\ idemArquivo' = salvarIdempotencyEmDisco(novo, idempotencyFilePath, idemDisco,
                                                             idemArquivo)
            /\ UNCHANGED proxMessageId
  /\ UNCHANGED <<idempotencyFilePath, idemDisco, eAgora, eAvancos>>
  /\ UNCHANGED foraEntrega

(***************************************************************************)
(* The Graph API send of request p settles.  Success: mirror, record the   *)
(* key, return (sendPayload); record the key, mirror, answer 200           *)
(* (endpoint).  Failure: the catch block of comRetry; a rethrown error     *)
(* leaves sendPayload as it is and makes the endpoint answer 502.          *)
(***************************************************************************)
EntregaResposta(p) ==
  /\ pedido[p].pc = "enviando"
  /\ \E o \in ResultadosDoEnvio(0, proxMessageId) :
       IF o.tipo = "ok"
       THEN LET r == pedido[p]
                novo == IF r.chave = SemChave THEN idempotencyCache
                        ELSE registrarIdempotency(idempotencyCache, r.chave, o.messageId, eAgora)
            IN
            /\ proxMessageId' = proxMessageId + 1
            /\ idempotencyCache' = novo
            /\ idemArquivo' = IF r.chave = SemChave THEN idemArquivo
                              ELSE salvarIdempotencyEmDisco(novo, idempotencyFilePath, idemDisco, idemArquivo)
            /\ pedido' = [pedido EXCEPT ![p] =
                 [r EXCEPT !.pc = "feito", !.tentativa = 0,
                           !.entregues = r.entregues + 1,
                           !.quando = eAgora,
                           !.espelhos = r.espelhos + EspelhosAposEnvio(o),
                           !.resultado = RespostaOk(IF r.tipo = "sendPayload" THEN "api-meta" ELSE "",
                                                    o.messageId, FALSE)]]
       ELSE LET d == comRetryCatch(o, pedido[p].tentativa, eAgora) IN
            /\ IF d.acao = "throw"
               THEN pedido' = [pedido EXCEPT ![p].pc = "feito", ![p].tentativa = 0,
                                             ![p].espelhos =
                                               pedido[p].espelhos + EspelhosAposEnvio(o),
                                             ![p].resultado =
                                               IF pedido[p].tipo = "sendPayload" THEN o
                                               ELSE [tipo |-> "http", status |-> 502]]
               ELSE pedido' = [pedido EXCEPT ![p].pc = "esperando"]
            /\ UNCHANGED <<idempotencyCache, idemArquivo, proxMessageId>>
  /\ UNCHANGED <<idempotencyFilePath, idemDisco, eAgora, eAvancos>>
  /\ UNCHANGED foraEntrega

\* The backoff timer of request p fires: tentativa++ and the next invocation.
EntregaAcordar(p) ==
  /\ pedido[p].pc = "esperando"
  /\ pedido' = [pedido EXCEPT ![p].pc = "enviando",
                              ![p].tentativa = pedido[p].tentativa + 1]
  /\ UNCHANGED <<idempotencyCache, idempotencyFilePath, idemDisco, idemArquivo, proxMessageId,
                 eAgora, eAvancos>>
  /\ UNCHANGED foraEntrega

\* limparIdempotencyExpiradas (the hourly setInterval), when it finds expired
\* entries; when it finds none it changes nothing.
LimparIdempotencyExpiradas ==
  LET exp == ChavesExpiradas(idempotencyCache, eAgora)
      novo == [k \in Chaves |-> IF k \in exp THEN Nenhum ELSE idempotencyCache[k]]
  IN
  /\ exp # {}
  /\ idempotencyCache' = novo
  /\ idemArquivo' = salvarIdempotencyEmDisco(novo, idempotencyFilePath, idemDisco, idemArquivo)
  /\ UNCHANGED <<idempotencyFilePath, idemDisco, pedido, proxMessageId, eAgora, eAvancos>>
  /\ UNCHANGED foraEntrega

\* Time passes.  A step is of the order of the TTL (24 h), while a request is
\* in flight for at most 3 sends of GRAPH_API_TIMEOUT_MS (10 s) and two waits
\* of 1 s and 2 s: no request is in flight across such a step.
EntregaTempo ==
  /\ eAvancos < MaxAvancos
  /\ \A p \in Pedidos : pedido[p].pc \in {"ocioso", "feito"}
  /\ \E d \in PassosDeTempo : eAgora' = eAgora + d
  /\ eAvancos' = eAvancos + 1
  /\ UNCHANGED <<idempotencyCache, idempotencyFilePath, idemDisco, idemArquivo, pedido, proxMessageId>>
  /\ UNCHANGED foraEntrega

\* The process is restarted while no request is in flight: the module is
\* loaded anew (idempotencyCache = new Map()) and register() loads the file.
\* The requests made so far stay on record, the clock and the Graph API go on.
Reiniciar ==
  /\ \A p \in Pedidos : pedido[p].pc \in {"ocioso", "feito"}
  /\ idempotencyCache' =
       carregarIdempotencyDoDisco(LedgerVazio, idempotencyFilePath, idemArquivo)
  /\ UNCHANGED <<idempotencyFilePath, idemDisco, idemArquivo, pedido, proxMessageId, eAgora, eAvancos>>
  /\ UNCHANGED foraEntrega

EntregaActions ==
  \/ \E p \in Pedidos : SendPayloadIniciar(p)
  \/ \E p \in Pedidos : EndpointIniciar(p)
  \/ \E p \in Pedidos : EntregaResposta(p)
  \/ \E p \in Pedidos : EntregaAcordar(p)
  \/ LimparIdempotencyExpiradas
  \/ EntregaTempo

-----------------------------------------------------------------------------
(* Chatwoot mirror: CacheTTL *)

CACHE_TTL_MINUTOS == 1440
CACHE_MAX_ENTRADAS == 10000

\* new CacheTTL(ttlMinutos, maxEntradas): this.ttlMs.
CacheTtlMs(ttlMinutos) == ttlMinutos * 60000

\* Position of `chave` in the Map (0: absent).
Posicao(mapa, chave) ==
  IF \E i \in 1..Len(mapa) : mapa[i].chave = chave
  THEN CHOOSE i \in 1..Len(mapa) : mapa[i].chave = chave
  ELSE 0

SemPosicao(mapa, i) == SubSeq(mapa, 1, i - 1) \o SubSeq(mapa, i + 1, Len(mapa))

\* CacheTTL.get with the entry treated as expired from its expiry instant on.
CacheGet_ExpiraNoLimite(mapa, chave, agora) ==
  LET i == Posicao(mapa, chave) IN
  IF i = 0 THEN [achou |-> FALSE, valor |-> 0, mapa |-> mapa]
  ELSE IF agora >= mapa[i].expira
       THEN [achou |-> FALSE, valor |-> 0, mapa |-> SemPosicao(mapa, i)]
       ELSE [achou |-> TRUE, valor |-> mapa[i].valor, mapa |-> mapa]

\* CacheTTL.get: the value found (achou) and the Map afterwards; an entry past
\* its expiry is deleted by the read.
CacheGet(mapa, chave, agora) ==
  LET i == Posicao(mapa, chave) IN
  IF i = 0 THEN [achou |-> FALSE, valor |-> 0, mapa |-> mapa]
  ELSE IF agora > mapa[i].expira
       THEN [achou |-> FALSE, valor |-> 0, mapa |-> SemPosicao(mapa, i)]
       ELSE [achou |-> TRUE, valor |-> mapa[i].valor, mapa |-> mapa]

\* CacheTTL.evictar without its second pass.
CacheEvictar_SoExpirados(mapa, agora, maxEntradas) ==
  SelectSeq(mapa, LAMBDA e : ~(agora > e.expira))

\* CacheTTL.evictar: drop the expired entries; if still full, drop the oldest
\* inserted until 80% of maxEntradas remain.
CacheEvictar(mapa, agora, maxEntradas) ==
  LET vivos == SelectSeq(mapa, LAMBDA e : ~(agora > e.expira)) IN
  IF Len(vivos) >= maxEntradas
  THEN LET excesso == Len(vivos) - ((maxEntradas * 8) \div 10) IN
       SubSeq(vivos, excesso + 1, Len(vivos))
  ELSE vivos

\* CacheTTL.set without the eviction.
CacheSet_SemEvictar(mapa, chave, valor, agora, ttlMs, maxEntradas) ==
  LET i == Posicao(mapa, chave)
      e == [chave |-> chave, valor |-> valor, expira |-> agora + ttlMs]
  IN IF i = 0 THEN Append(mapa, e) ELSE [mapa EXCEPT ![i] = e]

\* CacheTTL.set: evict when full, then Map.set (a key already present keeps its
\* place in the insertion order).
CacheSet(mapa, chave, valor, agora, ttlMs, maxEntradas) ==
  LET m == IF Len(mapa) >= maxEntradas THEN CacheEvictar(mapa, agora, maxEntradas)
           ELSE mapa
      i == Posicao(m, chave)
      e == [chave |-> chave, valor |-> valor, expira |-> agora + ttlMs]
  IN IF i = 0 THEN Append(m, e) ELSE [m EXCEPT ![i] = e]

\* cacheContatos.set / cacheConversas.set
CacheBridgeSet(mapa, chave, valor, agora) ==
  CacheSet(mapa, chave, valor, agora, CacheTtlMs(CACHE_TTL_MINUTOS), CACHE_MAX_ENTRADAS)

-----------------------------------------------------------------------------
(* Chatwoot mirror: phone numbers (strings are sequences of characters) *)

Digitos == {"0", "1", "2", "3", "4", "5", "6", "7", "8", "9"}

\* phone.split("@")[0]
AntesDoArroba(phone) ==
  LET idx == {i \in 1..Len(phone) : phone[i] = "@"} IN
  IF idx = {} THEN phone
  ELSE SubSeq(phone, 1, (CHOOSE i \in idx : \A j \in idx : i <= j) - 1)

\* s.replace(/\D/g, "")
SoDigitos(s) == SelectSeq(s, LAMBDA c : c \in Digitos)

\* normalizarTelefoneE164 without the removal of the non-digits.
normalizarTelefoneE164_SemFiltro(phone) ==
  LET digitos == AntesDoArroba(phone) IN
  IF Len(digitos) = 12 /\ SubSeq(digitos, 1, 2) = <<"5", "5">>
  THEN SubSeq(digitos, 1, 4) \o <<"9">> \o SubSeq(digitos, 5, Len(digitos))
  ELSE digitos

\* Inserts the "9" into every number that starts with "55", whatever its
\* length.
normalizarTelefoneE164_SemTamanho(phone) ==
  LET digitos == SoDigitos(AntesDoArroba(phone)) IN
  IF Len(digitos) >= 4 /\ SubSeq(digitos, 1, 2) = <<"5", "5">>
  THEN SubSeq(digitos, 1, 4) \o <<"9">> \o SubSeq(digitos, 5, Len(digitos))
  ELSE digitos

normalizarTelefoneE164(phone) ==
  LET digitos == SoDigitos(AntesDoArroba(phone)) IN
  IF Len(digitos) = 12 /\ SubSeq(digitos, 1, 2) = <<"5", "5">>
  THEN SubSeq(digitos, 1, 4) \o <<"9">> \o SubSeq(digitos, 5, Len(digitos))
  ELSE digitos

telefoneValido(telefoneNormalizado) ==
  /\ Len(telefoneNormalizado) > 0
  /\ \A i \in 1..Len(telefoneNormalizado) : telefoneNormalizado[i] \in Digitos
  /\ Len(telefoneNormalizado) >= 10
  /\ Len(telefoneNormalizado) <= 15

\* "+55 11 98888-7777"
TelA == <<"+", "5", "5", " ", "1", "1", " ", "9", "8", "8", "8", "8", "-", "7", "7", "7", "7">>
\* "5511988887777@suffix"
TelB == <<"5", "5", "1", "1", "9", "8", "8", "8", "8", "7", "7", "7", "7",
          "@", "s", "u", "f", "f", "i", "x">>
\* "447911123456"
TelOutro == <<"4", "4", "7", "9", "1", "1", "1", "2", "3", "4", "5", "6">>
\* "123"
TelInvalido == <<"1", "2", "3">>

Telefones == {TelA, TelB, TelOutro, TelInvalido}

\* The keys of the caches and of contatoEmVoo.
ChavesDeContato ==
  {normalizarTelefoneE164(t) : t \in {u \in Telefones : telefoneValido(normalizarTelefoneE164(u))}}

-----------------------------------------------------------------------------
(* Chatwoot mirror: the mirror tasks *)

NumEspelhos == 2
MaxAvancosContato == 1

Espelhos == 1..NumEspelhos

\* Contact 1 and conversation 1 are those Chatwoot may hold before the first
\* mirror; the ones created later are numbered from 2.
ContatoIds == 1..(NumEspelhos + 1)

Contato(id) == [tipo |-> "id", id |-> id]
Falha(texto) == [tipo |-> "erro", texto |-> texto]

(***************************************************************************)
(* A mirror task.  nome: sanitizarNome(senderName) is a non-empty string   *)
(* (while buscarOuCriarContatoInterno may still read it).  dono: the task   *)
(* whose buscarOuCriarContatoInterno the task awaits (itself when it        *)
(* started one, 0 after a cache hit).                                       *)
(* contato: what buscarOuCriarContato gave the task.  conversa: the        *)
(* conversation id it uses.  postsContato / postsConversa: the POST        *)
(* /contacts and POST /conversations calls it issued.  emCurso: the tasks  *)
(* in flight when it began.  quando: the time it obtained its contact.     *)
(***************************************************************************)
EspelhoOcioso ==
  [pc |-> "ocioso", phone |-> <<>>, nome |-> FALSE, dono |-> 0,
   contato |-> Nenhum, conversa |-> 0, postsContato |-> 0, postsConversa |-> 0,
   emCurso |-> {}, quando |-> 0, resultado |-> "-"]

EstagiosInterno == {"busca1", "busca2", "put", "postContato"}

ChaveDe(m) == normalizarTelefoneE164(espelho[m].phone)

EmCurso == {q \in Espelhos : espelho[q].pc \notin {"ocioso", "feito"}}

\* Tasks are interchangeable: task m begins after tasks 1..m-1 have.
ProximoEspelho(m) ==
  espelho[m].pc = "ocioso" /\ \A q \in 1..(m - 1) : espelho[q].pc # "ocioso"

\* buscarOuCriarContato without the look at contatoEmVoo.
buscarOuCriarContato_SemGuarda(cached, emVoo) ==
  IF cached THEN "cache" ELSE "interno"

\* buscarOuCriarContato after the validation: return the cached id, return the
\* promise in flight, or start buscarOuCriarContatoInterno.
buscarOuCriarContato(cached, emVoo) ==
  IF cached THEN "cache"
  ELSE IF emVoo # 0 THEN "emVoo"
  ELSE "interno"

\* The state after the module was loaded, Chatwoot holding a contact for
\* TelB's number (existentes >= 1) with an open conversation (existentes = 2).
InitContatoCom(existentes) ==
  /\ espelho = [m \in Espelhos |-> EspelhoOcioso]
  /\ cacheContatos = <<>>
  /\ cacheConversas = <<>>
  /\ contatoEmVoo = [k \in ChavesDeContato |-> 0]
  /\ \E n \in existentes :
       /\ remContatos = [k \in ChavesDeContato |->
                           IF n >= 1 /\ k = normalizarTelefoneE164(TelB) THEN {1} ELSE {}]
       /\ remConversas = [c \in ContatoIds |-> IF n = 2 /\ c = 1 THEN {1} ELSE {}]
  /\ proxContatoId = 2
  /\ proxConversaId = 2
  /\ cAgora = 0
  /\ cAvancos = 0

InitContato == InitContatoCom({0, 1, 2})

(***************************************************************************)
(* buscarOuCriarConversa up to its first suspension, for the tasks G that  *)
(* have just obtained their contact (esp: the tasks as updated so far):    *)
(* a cached conversation id leads to POST .../messages, none to GET        *)
(* /contacts/:id/conversations.                                            *)
(***************************************************************************)
EntrarNaConversa(esp, G, k) ==
  LET h == CacheGet(cacheConversas, k, cAgora) IN
  /\ cacheConversas' = h.mapa
  /\ espelho' = [m \in Espelhos |->
       IF m \in G
       THEN [esp[m] EXCEPT !.pc = IF h.achou THEN "postMsg" ELSE "getConv",
                           !.conversa = h.valor,
                           !.quando = cAgora]
       ELSE esp[m]]

\* The task o and the tasks awaiting its promise.
Grupo(o) ==
  {o} \cup {m \in Espelhos : espelho[m].pc = "esperaContato" /\ espelho[m].dono = o}

\* buscarOuCriarContatoInterno of task o returns id: the finally block deletes
\* the registry entry and every task of the group goes on to its conversation.
AssentarSucesso(o, id) ==
  LET G == Grupo(o)
      esp == [m \in Espelhos |->
                IF m \in G THEN [espelho[m] EXCEPT !.contato = Contato(id), !.nome = FALSE]
                ELSE espelho[m]]
  IN /\ contatoEmVoo' = [contatoEmVoo EXCEPT ![ChaveDe(o)] = 0]
     /\ EntrarNaConversa(esp, G, ChaveDe(o))

\* The rejection of buscarOuCriarContatoInterno without the finally block.
AssentarFalha_SemFinally(o, f) ==
  /\ UNCHANGED contatoEmVoo
  /\ espelho' = [m \in Espelhos |->
       IF m \in Grupo(o)
       THEN [espelho[m] EXCEPT !.pc = "feito", !.contato = f, !.nome = FALSE,
                               !.resultado = "falhou"]
       ELSE espelho[m]]
  /\ UNCHANGED cacheConversas

\* buscarOuCriarContatoInterno of task o throws: the finally block deletes the
\* registry entry and every task of the group logs the failure and ends.
AssentarFalha(o, f) ==
  /\ contatoEmVoo' = [contatoEmVoo EXCEPT ![ChaveDe(o)] = 0]
  /\ espelho' = [m \in Espelhos |->
       IF m \in Grupo(o)
       THEN [espelho[m] EXCEPT !.pc = "feito", !.contato = f, !.nome = FALSE,
                               !.resultado = "falhou"]
       ELSE espelho[m]]
  /\ UNCHANGED cacheConversas

\* The async body of espelharMensagemEntrada / espelharMensagemSaida up to its
\* first suspension.
IniciarEspelho(m, phone, nome) ==
  LET k == normalizarTelefoneE164(phone)
      base == [espelho[m] EXCEPT !.phone = phone, !.emCurso = EmCurso]
  IN
  IF ~telefoneValido(k)
  THEN /\ espelho' = [espelho EXCEPT ![m] =
            [base EXCEPT !.pc = "feito", !.contato = Falha("Telefone invalido"),
                         !.resultado = "falhou"]]
       /\ UNCHANGED <<cacheContatos, cacheConversas, contatoEmVoo>>
  ELSE LET g == CacheGet(cacheContatos, k, cAgora)
           d == buscarOuCriarContato(g.achou, contatoEmVoo[k])
       IN
       /\ cacheContatos' = g.mapa
       /\ CASE d = "cache" ->
                 /\ EntrarNaConversa(
                      [espelho EXCEPT ![m] = [base EXCEPT !.contato = Contato(g.valor)]],
                      {m}, k)
                 /\ UNCHANGED contatoEmVoo
            [] d = "emVoo" ->
                 /\ espelho' = [espelho EXCEPT ![m] =
                      [base EXCEPT !.pc = "esperaContato", !.dono = contatoEmVoo[k]]]
                 /\ UNCHANGED <<cacheConversas, contatoEmVoo>>
            [] d = "interno" ->
                 /\ espelho' = [espelho EXCEPT ![m] =
                      [base EXCEPT !.pc = "busca1", !.dono = m, !.nome = nome]]
                 /\ contatoEmVoo' = [contatoEmVoo EXCEPT ![k] = m]
                 /\ UNCHANGED cacheConversas

espelharMensagemEntrada(m) ==
  /\ ProximoEspelho(m)
  /\ \E phone \in Telefones, nome \in BOOLEAN : IniciarEspelho(m, phone, nome)
  /\ UNCHANGED <<remContatos, remConversas, proxContatoId, proxConversaId, cAgora, cAvancos>>
  /\ UNCHANGED foraContato

\* With an empty text espelharMensagemSaida returns at once.
espelharMensagemSaida(m) ==
  /\ ProximoEspelho(m)
  /\ \E phone \in Telefones, text \in BOOLEAN :
       IF text THEN IniciarEspelho(m, phone, FALSE)
       ELSE /\ espelho' = [espelho EXCEPT ![m] =
                 [espelho[m] EXCEPT !.pc = "feito", !.phone = phone,
                                    !.emCurso = EmCurso, !.resultado = "ignorado"]]
            /\ UNCHANGED <<cacheContatos, cacheConversas, contatoEmVoo>>
  /\ UNCHANGED <<remContatos, remConversas, proxContatoId, proxConversaId, cAgora, cAvancos>>
  /\ UNCHANGED foraContato

(***************************************************************************)
(* GET /contacts/search of task o answers (first query: the digits, second *)
(* query: "+" and the digits).  r = 0: no contact of the payload has the   *)
(* digits of the key, or the request failed; both lead to the next query   *)
(* and, after the second, to POST /contacts.  r > 0: the contact found; it *)
(* is cached and, if the task has a name and the contact's name is empty   *)
(* or its phone, PUT /contacts/:id comes first.                            *)
(***************************************************************************)
BuscaResposta(o) ==
  /\ espelho[o].pc \in {"busca1", "busca2"}
  /\ \E r \in {0} \cup remContatos[ChaveDe(o)], nomeFraco \in BOOLEAN :
       IF r = 0
       THEN /\ espelho' = [espelho EXCEPT ![o] =
                 IF espelho[o].pc = "busca1"
                 THEN [espelho[o] EXCEPT !.pc = "busca2"]
                 ELSE [espelho[o] EXCEPT !.pc = "postContato",
                                         !.postsContato = espelho[o].postsContato + 1]]
            /\ UNCHANGED <<cacheContatos, cacheConversas, contatoEmVoo>>
       ELSE /\ cacheContatos' = CacheBridgeSet(cacheContatos, ChaveDe(o), r, cAgora)
            /\ IF espelho[o].nome /\ nomeFraco
               THEN /\ espelho' = [espelho EXCEPT ![o] =
                         [espelho[o] EXCEPT !.pc = "put", !.contato = Contato(r)]]
                    /\ UNCHANGED <<cacheConversas, contatoEmVoo>>
               ELSE AssentarSucesso(o, r)
  /\ UNCHANGED <<remContatos, remConversas, proxContatoId, proxConversaId, cAgora, cAvancos>>
  /\ UNCHANGED foraContato

\* PUT /contacts/:id of task o answers or fails: best effort, the id found is
\* returned either way.
PutResposta(o) ==
  /\ espelho[o].pc = "put"
  /\ AssentarSucesso(o, espelho[o].contato.id)
  /\ UNCHANGED <<cacheContatos, remContatos, remConversas, proxContatoId, proxConversaId,
                 cAgora, cAvancos>>
  /\ UNCHANGED foraContato

\* POST /contacts of task o answers: the contact created, an HTTP error or
\* timeout, or a 2xx body without payload.contact.id.
PostContatoResposta(o) ==
  /\ espelho[o].pc = "postContato"
  /\ \E r \in {"ok", "erro", "semId"} :
       IF r = "ok"
       THEN /\ remContatos' = [remContatos EXCEPT ![ChaveDe(o)] = @ \cup {proxContatoId}]
            /\ proxContatoId' = proxContatoId + 1
            /\ cacheContatos' = CacheBridgeSet(cacheContatos, ChaveDe(o), proxContatoId, cAgora)
            /\ AssentarSucesso(o, proxContatoId)
       ELSE /\ AssentarFalha(o, IF r = "erro" THEN Falha("Chatwoot POST /contacts")
                                ELSE Falha("Falha ao criar contato no Chatwoot"))
            /\ UNCHANGED <<remContatos, proxContatoId, cacheContatos>>
  /\ UNCHANGED <<remConversas, proxConversaId, cAgora, cAvancos>>
  /\ UNCHANGED foraContato

\* GET /contacts/:id/conversations of task m answers: an open conversation of
\* the inbox (cached, then POST .../messages), or none or a failure (then POST
\* /conversations).
GetConvResposta(m) ==
  /\ espelho[m].pc = "getConv"
  /\ \E r \in {0} \cup remConversas[espelho[m].contato.id] :
       IF r = 0
       THEN /\ espelho' = [espelho EXCEPT ![m] =
                 [espelho[m] EXCEPT !.pc = "postConv",
                                    !.postsConversa = espelho[m].postsConversa + 1]]
            /\ UNCHANGED cacheConversas
       ELSE /\ cacheConversas' = CacheBridgeSet(cacheConversas, ChaveDe(m), r, cAgora)
            /\ espelho' = [espelho EXCEPT ![m] =
                 [espelho[m] EXCEPT !.pc = "postMsg", !.conversa = r]]
  /\ UNCHANGED <<cacheContatos, contatoEmVoo, remContatos, remConversas, proxContatoId,
                 proxConversaId, cAgora, cAvancos>>
  /\ UNCHANGED foraContato

\* POST /conversations of task m answers: the conversation created (cached,
\* then POST .../messages), or an error or a body without id (the task logs
\* the failure and ends).
PostConvResposta(m) ==
  /\ espelho[m].pc = "postConv"
  /\ \E r \in {"ok", "erro", "semId"} :
       IF r = "ok"
       THEN /\ remConversas' = [remConversas EXCEPT ![espelho[m].contato.id] =
                                   @ \cup {proxConversaId}]
            /\ proxConversaId' = proxConversaId + 1
            /\ cacheConversas' = CacheBridgeSet(cacheConversas, ChaveDe(m), proxConversaId, cAgora)
            /\ espelho' = [espelho EXCEPT ![m] =
                 [espelho[m] EXCEPT !.pc = "postMsg", !.conversa = proxConversaId]]
       ELSE /\ espelho' = [espelho EXCEPT ![m] =
                 [espelho[m] EXCEPT !.pc = "feito", !.resultado = "falhou"]]
            /\ UNCHANGED <<remConversas, proxConversaId, cacheConversas>>
  /\ UNCHANGED <<cacheContatos, contatoEmVoo, remContatos, proxContatoId, cAgora, cAvancos>>
  /\ UNCHANGED foraContato

\* POST /conversations/:id/messages of task m answers or fails (a failure is
\* only logged): the task ends.
PostMsgResposta(m) ==
  /\ espelho[m].pc = "postMsg"
  /\ \E r \in {"ok", "erro"} :
       espelho' = [espelho EXCEPT ![m] =
                     [espelho[m] EXCEPT !.pc = "feito", !.resultado = "terminou"]]
  /\ UNCHANGED <<cacheContatos, cacheConversas, contatoEmVoo, remContatos, remConversas,
                 proxContatoId, proxConversaId, cAgora, cAvancos>>
  /\ UNCHANGED foraContato

\* Time passes.  A step is of the order of the cache TTL (24 h), while a task
\* is in flight for a few requests of at most 5 s each: no task is in flight
\* across such a step.  With both caches empty a step changes nothing but the
\* origin of the time axis.
PassosDeTempoContato == {CacheTtlMs(CACHE_TTL_MINUTOS), CacheTtlMs(CACHE_TTL_MINUTOS) + 1}

ContatoTempo ==
  /\ cAvancos < MaxAvancosContato
  /\ EmCurso = {}
  /\ cacheContatos # <<>> \/ cacheConversas # <<>>
  /\ \E d \in PassosDeTempoContato : cAgora' = cAgora + d
  /\ cAvancos' = cAvancos + 1
  /\ UNCHANGED <<espelho, cacheContatos, cacheConversas, contatoEmVoo, remContatos,
                 remConversas, proxContatoId, proxConversaId>>
  /\ UNCHANGED foraContato

ContatoActions ==
  \/ \E m \in Espelhos : espelharMensagemEntrada(m)
  \/ \E m \in Espelhos : espelharMensagemSaida(m)
  \/ \E o \in Espelhos : BuscaResposta(o)
  \/ \E o \in Espelhos : PutResposta(o)
  \/ \E o \in Espelhos : PostContatoResposta(o)
  \/ \E m \in Espelhos : GetConvResposta(m)
  \/ \E m \in Espelhos : PostConvResposta(m)
  \/ \E m \in Espelhos : PostMsgResposta(m)
  \/ ContatoTempo

-----------------------------------------------------------------------------
(* A primary send and its mirror: sendText of the outbound adapter *)

\* A call of sendText.  api: what comRetry(enviarTextoCloudApi) gave.
\* espelho: the mirror task espelharSeguro started, 0 when none.
EnvioOcioso ==
  [pc |-> "ocioso", to |-> <<>>, api |-> "-", resultado |-> Nenhum, espelho |-> 0]

\* The value sendText returns after the mirror was started, whatever the
\* mirror task did up to its first suspension.
RetornoDoEnvio_PropagaEspelho(messageId, tarefa) ==
  IF tarefa.resultado = "falhou"
    THEN [pc |-> "lancou", resultado |-> tarefa.contato]
    ELSE [pc |-> "retornou", resultado |-> RespostaOk("api-meta", messageId, FALSE)]

RetornoDoEnvio(messageId, tarefa) ==
  [pc |-> "retornou", resultado |-> RespostaOk("api-meta", messageId, FALSE)]

\* The numbers sendText is called with: one Chatwoot takes and one the
\* mirror refuses.
DestinosDeEnvio == {TelB, TelInvalido}

InitEnvio == envio = EnvioOcioso

\* sendText is called: an empty text throws, otherwise the Graph API request
\* is in flight.
SendTextIniciar ==
  /\ envio.pc = "ocioso"
  /\ \E to \in DestinosDeEnvio, safeText \in BOOLEAN :
       envio' = IF safeText
                  THEN [envio EXCEPT !.pc = "emVoo", !.to = to]
                  ELSE [envio EXCEPT !.pc = "lancou",
                                     !.resultado = Falha("Canal api-meta: texto vazio")]
  /\ UNCHANGED varsContato
  /\ UNCHANGED foraEspelhamento

\* comRetry settles.  A rejection is thrown to the caller.  After a result
\* espelharSeguro calls espelharMensagemSaida, whose task runs to its first
\* suspension, and sendText returns the result of the send.
SendTextResposta ==
  /\ envio.pc = "emVoo"
  /\ \E r \in {Sucesso(1), ErroGraphApi(1, 400, {}, SemRetryAfter)} :
       IF r.tipo = "ok"
       THEN \E m \in Espelhos :
              /\ ProximoEspelho(m)
              /\ IniciarEspelho(m, envio.to, FALSE)
              /\ envio' = [envio EXCEPT
                   !.pc = RetornoDoEnvio(r.messageId, espelho'[m]).pc,
                   !.resultado = RetornoDoEnvio(r.messageId, espelho'[m]).resultado,
                   !.api = "ok", !.espelho = m]
       ELSE /\ envio' = [envio EXCEPT !.pc = "lancou", !.api = "erro", !.resultado = r]
            /\ UNCHANGED <<espelho, cacheContatos, cacheConversas, contatoEmVoo>>
  /\ UNCHANGED <<remContatos, remConversas, proxContatoId, proxConversaId, cAgora, cAvancos>>
  /\ UNCHANGED foraEspelhamento

EnvioActions ==
  \/ SendTextIniciar
  \/ SendTextResposta

\* The sends, the inbound mirrors and the answers of Chatwoot.
EspelhamentoActions ==
  \/ EnvioActions
  \/ \E m \in Espelhos : espelharMensagemEntrada(m)
  \/ \E o \in Espelhos : BuscaResposta(o)
  \/ \E o \in Espelhos : PutResposta(o)
  \/ \E o \in Espelhos : PostContatoResposta(o)
  \/ \E m \in Espelhos : GetConvResposta(m)
  \/ \E m \in Espelhos : PostConvResposta(m)
  \/ \E m \in Espelhos : PostMsgResposta(m)

-----------------------------------------------------------------------------
(* Handoff store *)

NumOperacoes == 2
MaxAvancosHandoff == 1

Operacoes == 1..NumOperacoes

\* normalizeE164 of ../utils.js, as the Identity Normalizer of the
\* specification describes it: the suffix after "@" and the non-digits are
\* stripped, the mobile digit is inserted.
normalizeE164(number) ==
  LET digitos == SoDigitos(AntesDoArroba(number)) IN
  IF Len(digitos) = 12 /\ SubSeq(digitos, 1, 2) = <<"5", "5">>
  THEN SubSeq(digitos, 1, 4) \o <<"9">> \o SubSeq(digitos, 5, Len(digitos))
  ELSE digitos

NumerosHandoff == {TelA, TelB, TelOutro}
\* activatedBy and durationMinutes of the callers: the command handler (here
\* with one minute) and the Chatwoot webhook (HANDOFF_CHATWOOT_MINUTOS).
Ativacoes == {[activatedBy |-> "comando", durationMinutes |-> 1],
              [activatedBy |-> "chatwoot:resolver", durationMinutes |-> 1440]}

MsPorMinuto == 60000

ArquivoAusente == [estado |-> "ausente", entries |-> <<>>]
ArquivoValido(entries) == [estado |-> "valido", entries |-> entries]
ArquivoInvalido == [estado |-> "invalido", entries |-> <<>>]

\* loadStore keeping an entry at the instant it expires.
loadStore_AteOLimite(arquivo, agora) ==
  IF arquivo.estado = "valido"
  THEN SelectSeq(arquivo.entries, LAMBDA e : e.expiresAt >= agora)
  ELSE <<>>

\* loadStore: the entries of a readable file that have not expired; an empty
\* list for a missing or invalid file.
loadStore(arquivo, agora) ==
  IF arquivo.estado = "valido"
  THEN SelectSeq(arquivo.entries, LAMBDA e : e.expiresAt > agora)
  ELSE <<>>

\* The filter of activateHandoff and deactivateHandoff keeping every entry.
SemNumero_SemFiltro(entries, normalized) == entries

\* store.entries.filter((e) => normalizeE164(e.number) !== normalized)
SemNumero(entries, normalized) ==
  SelectSeq(entries, LAMBDA e : normalizeE164(e.number) # normalized)

\* isHandoffActive: the first unexpired entry of the number, or Nenhum.
isHandoffActive(arquivo, senderE164, agora) ==
  LET normalized == normalizeE164(senderE164)
      achados == SelectSeq(loadStore(arquivo, agora),
                           LAMBDA e : normalizeE164(e.number) = normalized /\ e.expiresAt > agora)
  IN IF achados = <<>> THEN Nenhum ELSE achados[1]

listActiveHandoffs(arquivo, agora) == loadStore(arquivo, agora)

\* activateHandoff with the duration taken as seconds.
activateHandoffStore_EmSegundos(arquivo, number, activatedBy, durationMinutes, agora) ==
  Append(SelectSeq(loadStore(arquivo, agora),
                   LAMBDA e : normalizeE164(e.number) # normalizeE164(number)),
         [number |-> normalizeE164(number), activatedBy |-> activatedBy,
          activatedAt |-> agora, expiresAt |-> agora + durationMinutes * 1000])

\* activateHandoff before its save: the store it is about to write.
activateHandoffStore(arquivo, number, activatedBy, durationMinutes, agora) ==
  Append(SemNumero(loadStore(arquivo, agora), normalizeE164(number)),
         [number |-> normalizeE164(number), activatedBy |-> activatedBy,
          activatedAt |-> agora, expiresAt |-> agora + durationMinutes * MsPorMinuto])

(***************************************************************************)
(* A call of activateHandoff / deactivateHandoff.  normalized: its local   *)
(* of that name.  store: the list it passes to saveStore.  emCurso: the calls in flight when it began.       *)
(* quando: the time it began.  The temp file of a save has a name of its   *)
(* own (pid and random UUID) and is read by nobody: it is not kept here.   *)
(***************************************************************************)
OperacaoOciosa ==
  [pc |-> "ociosa", tipo |-> "-", normalized |-> <<>>, store |-> <<>>, emCurso |-> {},
   quando |-> 0, resultado |-> "-"]

OperacoesEmCurso == {q \in Operacoes : operacao[q].pc \notin {"ociosa", "feita"}}

\* Calls are interchangeable: call o begins after calls 1..o-1 have.
ProximaOperacao(o) ==
  operacao[o].pc = "ociosa" /\ \A q \in 1..(o - 1) : operacao[q].pc # "ociosa"

\* The state after the module was loaded: no call yet; the file is missing, or
\* holds the entries left by an earlier run.
InitHandoffCom(plataformas, arquivos) ==
  /\ hArquivo \in arquivos
  /\ hWin32 \in plataformas
  /\ operacao = [o \in Operacoes |-> OperacaoOciosa]
  /\ hAgora = 0
  /\ hAvancos = 0

ArquivoDeAntes ==
  ArquivoValido(<<[number |-> normalizeE164(TelOutro), activatedBy |-> "chatwoot:resolver",
                   activatedAt |-> 0, expiresAt |-> 1440 * MsPorMinuto]>>)

InitHandoff == InitHandoffCom(BOOLEAN, {ArquivoAusente, ArquivoDeAntes})

\* activateHandoff up to the first suspension of saveStore (mkdir).
ActivateHandoff(o) ==
  /\ ProximaOperacao(o)
  /\ \E number \in NumerosHandoff, a \in Ativacoes :
       operacao' = [operacao EXCEPT ![o] =
         [operacao[o] EXCEPT
            !.pc = "mkdir", !.tipo = "activate", !.normalized = normalizeE164(number),
            !.store = activateHandoffStore(hArquivo, number, a.activatedBy,
                                           a.durationMinutes, hAgora),
            !.emCurso = OperacoesEmCurso, !.quando = hAgora]]
  /\ UNCHANGED <<hArquivo, hWin32, hAgora, hAvancos>>
  /\ UNCHANGED foraHandoff

\* deactivateHandoff up to the first suspension of saveStore; without an entry
\* of the number it returns false at once.
DeactivateHandoff(o) ==
  /\ ProximaOperacao(o)
  /\ \E number \in NumerosHandoff :
       LET store == loadStore(hArquivo, hAgora)
           resto == SemNumero(store, normalizeE164(number))
           base == [operacao[o] EXCEPT !.tipo = "deactivate",
                                       !.normalized = normalizeE164(number),
                                       !.emCurso = OperacoesEmCurso, !.quando = hAgora]
       IN operacao' = [operacao EXCEPT ![o] =
            IF Len(resto) < Len(store)
            THEN [base EXCEPT !.pc = "mkdir", !.store = resto]
            ELSE [base EXCEPT !.pc = "feita", !.resultado = "false"]]
  /\ UNCHANGED <<hArquivo, hWin32, hAgora, hAvancos>>
  /\ UNCHANGED foraHandoff

\* saveStore fails at its current step: the call rejects.
Rejeitada(o) ==
  [operacao[o] EXCEPT !.pc = "feita", !.store = <<>>, !.resultado = "erro"]

\* The call returns: the entry (activateHandoff) or true (deactivateHandoff).
Concluida(o) ==
  [operacao[o] EXCEPT !.pc = "feita", !.store = <<>>,
                      !.resultado = IF operacao[o].tipo = "activate" THEN "entry" ELSE "true"]

\* fs.promises.mkdir settles; then writeFile begins, on the target (win32) or
\* on the temp file.
SaveMkdir(o) ==
  /\ operacao[o].pc = "mkdir"
  /\ \E ok \in BOOLEAN :
       operacao' = [operacao EXCEPT ![o] =
         IF ok THEN [operacao[o] EXCEPT !.pc = IF hWin32 THEN "abrir" ELSE "writeTmp"]
         ELSE Rejeitada(o)]
  /\ UNCHANGED <<hArquivo, hWin32, hAgora, hAvancos>>
  /\ UNCHANGED foraHandoff

\* win32: writeFile has opened (truncated) the target and not yet written it.
SaveAbrir(o) ==
  /\ operacao[o].pc = "abrir"
  /\ \E ok \in BOOLEAN :
       IF ok
       THEN /\ hArquivo' = ArquivoInvalido
            /\ operacao' = [operacao EXCEPT ![o].pc = "writeDireto"]
       ELSE /\ operacao' = [operacao EXCEPT ![o] = Rejeitada(o)]
            /\ UNCHANGED hArquivo
  /\ UNCHANGED <<hWin32, hAgora, hAvancos>>
  /\ UNCHANGED foraHandoff

\* win32: writeFile on the target settles; a failed write leaves it partial.
SaveWriteDireto(o) ==
  /\ operacao[o].pc = "writeDireto"
  /\ \E ok \in BOOLEAN :
       IF ok
       THEN /\ hArquivo' = ArquivoValido(operacao[o].store)
            /\ operacao' = [operacao EXCEPT ![o] = Concluida(o)]
       ELSE /\ operacao' = [operacao EXCEPT ![o] = Rejeitada(o)]
            /\ UNCHANGED hArquivo
  /\ UNCHANGED <<hWin32, hAgora, hAvancos>>
  /\ UNCHANGED foraHandoff

\* writeFile on the temp file settles; then rename begins.
SaveWriteTmp(o) ==
  /\ operacao[o].pc = "writeTmp"
  /\ \E ok \in BOOLEAN :
       operacao' = [operacao EXCEPT ![o] =
         IF ok THEN [operacao[o] EXCEPT !.pc = "rename"] ELSE Rejeitada(o)]
  /\ UNCHANGED <<hArquivo, hWin32, hAgora, hAvancos>>
  /\ UNCHANGED foraHandoff

\* rename(tmp, storePath) settles: the target is replaced as a whole.
SaveRename(o) ==
  /\ operacao[o].pc = "rename"
  /\ \E ok \in BOOLEAN :
       IF ok
       THEN /\ hArquivo' = ArquivoValido(operacao[o].store)
            /\ operacao' = [operacao EXCEPT ![o] = Concluida(o)]
       ELSE /\ operacao' = [operacao EXCEPT ![o] = Rejeitada(o)]
            /\ UNCHANGED hArquivo
  /\ UNCHANGED <<hWin32, hAgora, hAvancos>>
  /\ UNCHANGED foraHandoff

\* Time passes, by one minute (the shortest duration), while no call is in
\* the middle of its save (a few milliseconds of file system work).
HandoffTempo ==
  /\ hAvancos < MaxAvancosHandoff
  /\ OperacoesEmCurso = {}
  /\ hAgora' = hAgora + MsPorMinuto
  /\ hAvancos' = hAvancos + 1
  /\ UNCHANGED <<hArquivo, hWin32, operacao>>
  /\ UNCHANGED foraHandoff

HandoffActions ==
  \/ \E o \in Operacoes : ActivateHandoff(o)
  \/ \E o \in Operacoes : DeactivateHandoff(o)
  \/ \E o \in Operacoes : SaveMkdir(o)
  \/ \E o \in Operacoes : SaveAbrir(o)
  \/ \E o \in Operacoes : SaveWriteDireto(o)
  \/ \E o \in Operacoes : SaveWriteTmp(o)
  \/ \E o \in Operacoes : SaveRename(o)
  \/ HandoffTempo

-----------------------------------------------------------------------------
(* Meta webhook *)

DEDUP_TTL_MS == 600000

NumRequisicoes == 2
MaxMensagens == 2
MaxAvancosWebhook == 1

Requisicoes == 1..NumRequisicoes

MsgIds == {"m1", "m2"}
\* messageId undefined (or the empty string): falsy in the dedup test.
SemMessageId == ""

\* The sender of the messages.
Remetente == TelOutro

\* The sequences over S of length at most n.
SeqAte(S, n) == UNION {[1..k -> S] : k \in 0..n}

\* A message of the payload: its id and whether extrairMensagensDoWebhook
\* keeps it (a sender other than the own number, and a text).
MensagensCruas ==
  [id : MsgIds \cup {SemMessageId}, extraivel : {TRUE}] \cup
  {[id |-> SemMessageId, extraivel |-> FALSE]}

\* What lerBodyCru and the signature header of a request may be: no body, a
\* payload with a message and no or a wrong signature, or a signed body that
\* is not JSON or is a payload of messages.
CorposDeWebhook ==
  {[body |-> FALSE, assinatura |-> "ausente", json |-> FALSE, messages |-> <<>>],
   [body |-> TRUE, assinatura |-> "ausente", json |-> TRUE,
    messages |-> <<[id |-> "m1", extraivel |-> TRUE]>>],
   [body |-> TRUE, assinatura |-> "invalida", json |-> TRUE,
    messages |-> <<[id |-> "m1", extraivel |-> TRUE]>>],
   [body |-> TRUE, assinatura |-> "valida", json |-> FALSE, messages |-> <<>>]} \cup
  {[body |-> TRUE, assinatura |-> "valida", json |-> TRUE, messages |-> ms] :
     ms \in SeqAte(MensagensCruas, MaxMensagens)}

\* The signature test taking every header, and none, for a valid signature.
AssinaturaAceita_Sempre(rawBody) == TRUE

\* signature && validarAssinaturaWebhook(rawBody, signature, appSecret)
AssinaturaAceita(rawBody) == rawBody.assinatura = "valida"

\* The status written for an authenticated POST, were it 400 for a body that
\* is not JSON.
StatusAutenticado_SoJson(rawBody) == IF rawBody.json THEN 200 ELSE 400

\* res.statusCode = 200; res.end("OK"): written before the body is looked at.
StatusAutenticado(rawBody) == 200

\* The statements the handler runs on an authenticated POST, in their order:
\* the response, JSON.parse, the extraction and, with messages, the loop.
TratamentoAutenticado(rawBody, mensagens) ==
  <<"responde", "parse">> \o
  (IF ~rawBody.json THEN <<>>
   ELSE IF mensagens = <<>> THEN <<"extrai">>
   ELSE <<"extrai", "loop">>)

\* extrairMensagensDoWebhook: the messages kept, in the order of the payload.
extrairMensagensDoWebhook(messages) ==
  LET kept == SelectSeq(messages, LAMBDA m : m.extraivel) IN
  [i \in 1..Len(kept) |-> [waId |-> Remetente, messageId |-> kept[i].id]]

\* verificarChallengeWebhook: the status of the answer to the GET.
verificarChallengeWebhook(modeSubscribe, tokenOk, temChallenge) ==
  IF ~modeSubscribe THEN 400
  ELSE IF ~tokenOk THEN 403
  ELSE IF ~temChallenge THEN 400
  ELSE 200

\* The dedup test of one message without the mark.
dedupMensagem_SemMarca(ids, messageId, agora) ==
  IF messageId # SemMessageId /\ ids[messageId] # Indefinido
  THEN [duplicada |-> TRUE, ids |-> ids]
  ELSE [duplicada |-> FALSE, ids |-> ids]

\* The dedup test of one message in the loop: skip a seen id, mark a new one.
dedupMensagem(ids, messageId, agora) ==
  IF messageId # SemMessageId /\ ids[messageId] # Indefinido
  THEN [duplicada |-> TRUE, ids |-> ids]
  ELSE [duplicada |-> FALSE,
        ids |-> IF messageId # SemMessageId THEN [ids EXCEPT ![messageId] = agora] ELSE ids]

\* The loop over the messages: the Map afterwards and the messages whose
\* processing was started, in order.
RECURSIVE LoopDeMensagens(_, _, _)
LoopDeMensagens(mensagens, ids, agora) ==
  IF mensagens = <<>> THEN [ids |-> ids, iniciadas |-> <<>>]
  ELSE LET d == dedupMensagem(ids, Head(mensagens).messageId, agora)
           r == LoopDeMensagens(Tail(mensagens), d.ids, agora)
       IN [ids |-> r.ids,
           iniciadas |-> IF d.duplicada THEN r.iniciadas ELSE <<Head(mensagens)>> \o r.iniciadas]

\* log extended by the time `agora` once for each message of ms with id i.
ComTempos(log, ms, agora) ==
  [i \in DOMAIN log |->
     log[i] \o [k \in 1..Cardinality({j \in 1..Len(ms) : ms[j].messageId = i}) |-> agora]]

\* The ids of the messages ms.
IdsDe(ms) == {ms[j].messageId : j \in 1..Len(ms)}

\* The ids of the messages of ms the loop skipped (iniciadas: those it started).
IdsPulados(ms, iniciadas) ==
  {i \in IdsDe(ms) : Cardinality({j \in 1..Len(ms) : ms[j].messageId = i}) >
                       Cardinality({j \in 1..Len(iniciadas) : iniciadas[j].messageId = i})}

\* processarMensagemCloudApi without the look at the handoff store.
ParaOAgente_SemHandoff(iniciadas, arquivo, agora) == iniciadas

\* The started messages processarMensagemCloudApi hands to processMessage:
\* those whose sender has no handoff entry that isHandoffActive returns.
ParaOAgente(iniciadas, arquivo, agora) ==
  SelectSeq(iniciadas, LAMBDA m : isHandoffActive(arquivo, m.waId, agora) = Nenhum)

\* processarMensagemCloudApi up to its first suspension, for each started
\* message: those of a sender under handoff return, the others await
\* processMessage.
NaoPausadas(iniciadas, arquivo, agora) == Len(ParaOAgente(iniciadas, arquivo, agora))

RequisicaoOciosa == "ociosa"

\* Requests are interchangeable: request r arrives after requests 1..r-1 have.
ProximaRequisicao(r) ==
  requisicao[r] = "ociosa" /\ \A q \in 1..(r - 1) : requisicao[q] # "ociosa"

InitWebhook ==
  /\ processedIds = [i \in MsgIds |-> Indefinido]
  /\ requisicao = [r \in Requisicoes |-> RequisicaoOciosa]
  /\ resposta = 0
  /\ tratamento = <<>>
  /\ inicios = [i \in MsgIds |-> <<>>]
  /\ entregas = [i \in MsgIds |-> {}]
  /\ pulos = [i \in MsgIds |-> {}]
  /\ agente = [i \in MsgIds |-> 0]
  /\ emProcesso = 0
  /\ wAgora = 0
  /\ wAvancos = 0

\* handleMetaWhatsAppWebhook up to its first suspension: 503 without a
\* configuration, the answer to a GET, 405 to another method, and for a POST
\* the wait for the body.
WebhookReceber(r) ==
  /\ ProximaRequisicao(r)
  /\ \E configurado \in BOOLEAN, metodo \in {"GET", "POST", "PUT"},
        modeSubscribe \in BOOLEAN, tokenOk \in BOOLEAN, temChallenge \in BOOLEAN :
       LET status == IF ~configurado THEN 503
                     ELSE IF metodo = "GET"
                     THEN verificarChallengeWebhook(modeSubscribe, tokenOk, temChallenge)
                     ELSE IF metodo # "POST" THEN 405
                     ELSE 0
       IN
       /\ requisicao' = [requisicao EXCEPT ![r] = IF status = 0 THEN "lendo" ELSE "feita"]
       /\ resposta' = IF status = 0 THEN resposta ELSE status
  /\ UNCHANGED <<processedIds, tratamento, inicios, entregas, pulos, agente, emProcesso, wAgora,
                 wAvancos>>
  /\ UNCHANGED foraWebhook

(***************************************************************************)
(* lerBodyCru of request r settles, and the handler runs to its end: 400   *)
(* without a body, 401 without a valid signature, else 200 and then the    *)
(* parse, the extraction and the loop, which starts the processing of the  *)
(* messages not seen before.                                               *)
(***************************************************************************)
WebhookCorpo(r) ==
  /\ requisicao[r] = "lendo"
  /\ requisicao' = [requisicao EXCEPT ![r] = "feita"]
  /\ \E rawBody \in CorposDeWebhook :
       IF ~rawBody.body
       THEN /\ resposta' = 400
            /\ tratamento' = <<"responde">>
            /\ UNCHANGED <<processedIds, inicios, entregas, pulos, agente, emProcesso>>
       ELSE IF ~AssinaturaAceita(rawBody)
       THEN /\ resposta' = 401
            /\ tratamento' = <<"responde">>
            /\ UNCHANGED <<processedIds, inicios, entregas, pulos, agente, emProcesso>>
       ELSE LET mensagens == IF rawBody.json THEN extrairMensagensDoWebhook(rawBody.messages)
                             ELSE <<>>
                l == LoopDeMensagens(mensagens, processedIds, wAgora)
            IN
            /\ resposta' = StatusAutenticado(rawBody)
            /\ tratamento' = TratamentoAutenticado(rawBody, mensagens)
            /\ processedIds' = l.ids
            /\ entregas' = [i \in DOMAIN entregas |->
                 IF i \in IdsDe(mensagens) /\ rawBody.assinatura = "valida"
                 THEN entregas[i] \cup {wAgora} ELSE entregas[i]]
            /\ pulos' = [i \in DOMAIN pulos |->
                 IF i \in IdsPulados(mensagens, l.iniciadas) THEN pulos[i] \cup {wAgora}
                 ELSE pulos[i]]
            /\ inicios' = ComTempos(inicios, l.iniciadas, wAgora)
            /\ agente' = [i \in DOMAIN agente |->
                 agente[i] + Cardinality({k \in 1..NaoPausadas(l.iniciadas, hArquivo, wAgora) :
                    ParaOAgente(l.iniciadas, hArquivo, wAgora)[k].messageId = i})]
            /\ emProcesso' = emProcesso + NaoPausadas(l.iniciadas, hArquivo, wAgora)
  /\ UNCHANGED <<wAgora, wAvancos>>
  /\ UNCHANGED foraWebhook

\* processMessage of one task settles (an error is only logged).
ProcessamentoTermina ==
  /\ emProcesso > 0
  /\ emProcesso' = emProcesso - 1
  /\ UNCHANGED <<processedIds, requisicao, resposta, tratamento, inicios, entregas, pulos, agente,
                 wAgora, wAvancos>>
  /\ UNCHANGED foraWebhook

\* The ids the sweep would delete, were its test `now - ts >= DEDUP_TTL_MS`.
IdsExpirados_AosDezMinutos(ids, agora) ==
  {i \in MsgIds : ids[i] # Indefinido /\ agora - ids[i] >= DEDUP_TTL_MS}

\* The ids the sweep deletes.
IdsExpirados(ids, agora) ==
  {i \in MsgIds : ids[i] # Indefinido /\ agora - ids[i] > DEDUP_TTL_MS}

\* The setInterval sweep of processedIds, when it finds ids to delete.
LimparProcessedIds ==
  /\ IdsExpirados(processedIds, wAgora) # {}
  /\ processedIds' = [i \in MsgIds |->
       IF i \in IdsExpirados(processedIds, wAgora) THEN Indefinido ELSE processedIds[i]]
  /\ UNCHANGED <<requisicao, resposta, tratamento, inicios, entregas, pulos, agente, emProcesso,
                 wAgora, wAvancos>>
  /\ UNCHANGED foraWebhook

\* Time passes.  A step is of the order of the dedup TTL (10 min), while the
\* body of a request is read within BODY_READ_TIMEOUT_MS (10 s): no request
\* is waiting for its body across such a step.
PassosDeTempoWebhook == {DEDUP_TTL_MS, DEDUP_TTL_MS + 1}

WebhookTempo ==
  /\ wAvancos < MaxAvancosWebhook
  /\ \A r \in Requisicoes : requisicao[r] # "lendo"
  /\ \E d \in PassosDeTempoWebhook : wAgora' = wAgora + d
  /\ wAvancos' = wAvancos + 1
  /\ UNCHANGED <<processedIds, requisicao, resposta, tratamento, inicios, entregas, pulos, agente,
                 emProcesso>>
  /\ UNCHANGED foraWebhook

WebhookActions ==
  \/ \E r \in Requisicoes : WebhookReceber(r)
  \/ \E r \in Requisicoes : WebhookCorpo(r)
  \/ ProcessamentoTermina
  \/ LimparProcessedIds
  \/ WebhookTempo

-----------------------------------------------------------------------------
(* One CacheTTL instance, new CacheTTL(TtlMinutosCache, MaxEntradasCache), *)
(* under set, get and delete.                                              *)

TtlMinutosCache == 1
MaxEntradasCache == 6
MaxOperacoesCache == 2
MaxAvancosCache == 1

ChavesCache == 1..(MaxEntradasCache + 1)
\* The value of the entries the instance starts with, and the value of the
\* sets made afterwards.
ValorInicialCache == 1
ValoresCache == {2}

\* CacheTTL.delete
CacheDelete(mapa, chave) ==
  LET i == Posicao(mapa, chave) IN
  IF i = 0 THEN mapa ELSE SemPosicao(mapa, i)

ChavesDoMapa(mapa) == {mapa[i].chave : i \in 1..Len(mapa)}

SemOperacao ==
  [tipo |-> "-", chave |-> 0, quando |-> 0, achou |-> FALSE, valor |-> 0,
   evictou |-> FALSE, aposEvictar |-> <<>>]

\* The instance after set(1, 1), ..., set(n, 1), the first j of them made at
\* time 0 and the others at time 1.
MapaDepoisDeSets(n, j) ==
  [i \in 1..n |-> [chave |-> i, valor |-> ValorInicialCache,
                   expira |-> (IF i <= j THEN 0 ELSE 1) + CacheTtlMs(TtlMinutosCache)]]

InitCache ==
  /\ \E n \in 0..MaxEntradasCache : \E j \in 0..n :
       /\ tMapa = MapaDepoisDeSets(n, j)
       /\ ultimoSet = [k \in ChavesCache |->
            IF k <= n THEN [valor |-> ValorInicialCache, quando |-> IF k <= j THEN 0 ELSE 1]
            ELSE Nenhum]
  /\ tAgora = 1
  /\ tAvancos = 0
  /\ tOps = 0
  /\ ultimaOp = SemOperacao

\* The keys never used, or deleted or evicted since, are interchangeable: of
\* these only the smallest is used next.
ChaveEmUso(k) == k \in ChavesDoMapa(tMapa) \/ ultimoSet[k] # Nenhum

ProximaChave(k) == IF ChaveEmUso(k) THEN TRUE ELSE \A c \in 1..(k - 1) : ChaveEmUso(c)

\* cache.set(chave, valor)
TtlSet(chave, valor) ==
  /\ tOps < MaxOperacoesCache
  /\ ProximaChave(chave)
  /\ tOps' = tOps + 1
  /\ tMapa' = CacheSet(tMapa, chave, valor, tAgora, CacheTtlMs(TtlMinutosCache),
                       MaxEntradasCache)
  /\ ultimoSet' = [k \in ChavesCache |->
       IF k = chave THEN [valor |-> valor, quando |-> tAgora]
       ELSE IF k \in ChavesDoMapa(tMapa) \ ChavesDoMapa(tMapa') THEN Nenhum
       ELSE ultimoSet[k]]
  /\ ultimaOp' =
       [tipo |-> "set", chave |-> chave, quando |-> tAgora, achou |-> FALSE,
        valor |-> valor,
        evictou |-> Len(tMapa) >= MaxEntradasCache,
        aposEvictar |-> IF Len(tMapa) >= MaxEntradasCache
                        THEN CacheEvictar(tMapa, tAgora, MaxEntradasCache) ELSE <<>>]
  /\ UNCHANGED <<tAgora, tAvancos>>
  /\ UNCHANGED foraCache

\* cache.get(chave)
TtlGet(chave) ==
  /\ tOps < MaxOperacoesCache
  /\ ProximaChave(chave)
  /\ tOps' = tOps + 1
  /\ LET r == CacheGet(tMapa, chave, tAgora) IN
     /\ tMapa' = r.mapa
     /\ ultimaOp' = [tipo |-> "get", chave |-> chave, quando |-> tAgora, achou |-> r.achou,
                     valor |-> r.valor, evictou |-> FALSE, aposEvictar |-> <<>>]
  /\ UNCHANGED <<tAgora, tAvancos, ultimoSet>>
  /\ UNCHANGED foraCache

\* cache.delete(chave)
TtlDelete(chave) ==
  /\ tOps < MaxOperacoesCache
  /\ ProximaChave(chave)
  /\ tOps' = tOps + 1
  /\ tMapa' = CacheDelete(tMapa, chave)
  /\ ultimoSet' = [ultimoSet EXCEPT ![chave] = Nenhum]
  /\ ultimaOp' = [SemOperacao EXCEPT !.tipo = "delete"]
  /\ UNCHANGED <<tAgora, tAvancos>>
  /\ UNCHANGED foraCache

\* Time passes: to just before, or to exactly, one TTL later.
PassosDeTempoCache == {CacheTtlMs(TtlMinutosCache) - 1, CacheTtlMs(TtlMinutosCache)}

TtlTempo ==
  /\ tAvancos < MaxAvancosCache
  /\ tAvancos' = tAvancos + 1
  /\ \E d \in PassosDeTempoCache : tAgora' = tAgora + d
  /\ UNCHANGED <<tMapa, tOps, ultimoSet, ultimaOp>>
  /\ UNCHANGED foraCache

CacheActions ==
  \/ \E k \in ChavesCache, v \in ValoresCache : TtlSet(k, v)
  \/ \E k \in ChavesCache : TtlGet(k)
  \/ \E k \in ChavesCache : TtlDelete(k)
  \/ TtlTempo

-----------------------------------------------------------------------------
(* Signature verifiers: verificarHmacHandoff and validarAssinaturaWebhook *)

\* The longest run of extra characters appended to a digest in a header.
MaxExtras == 3

\* The length of digest("hex") of an HMAC-SHA256: two characters per byte.
TamanhoDigestHex == 64

DigitosHex ==
  <<"0", "1", "2", "3", "4", "5", "6", "7", "8", "9", "a", "b", "c", "d", "e", "f">>

MaiusculasHex == <<"A", "B", "C", "D", "E", "F">>

\* The value of one character in Buffer.from(s, "hex"): Indefinido for a
\* character that is no hexadecimal digit.
unhex(c) ==
  IF \E i \in 1..16 : DigitosHex[i] = c
    THEN (CHOOSE i \in 1..16 : DigitosHex[i] = c) - 1
    ELSE IF \E i \in 1..6 : MaiusculasHex[i] = c
      THEN (CHOOSE i \in 1..6 : MaiusculasHex[i] = c) + 9
      ELSE Indefinido

\* Buffer.from(s, "hex"): one byte per pair of characters, up to the first pair
\* with a character that is no hexadecimal digit; a last character without a
\* pair is dropped. It never throws.
BufferFromHex(s) ==
  LET n == Len(s) \div 2
      parValido(i) == unhex(s[2 * i - 1]) # Indefinido /\ unhex(s[2 * i]) # Indefinido
      k == CHOOSE j \in 0..n :
             /\ \A i \in 1..j : parValido(i)
             /\ j < n => ~parValido(j + 1)
  IN [i \in 1..k |-> 16 * unhex(s[2 * i - 1]) + unhex(s[2 * i])]

Lancou == "lancou"
Pendente == "pendente"

\* crypto.timingSafeEqual(a, b): a RangeError when the byte lengths differ.
timingSafeEqual(a, b) ==
  IF Len(a) # Len(b) THEN Lancou ELSE IF a = b THEN "true" ELSE "false"

\* try { return timingSafeEqual(...) } catch { return false }
TentaComparar(expected, computed) ==
  LET r == timingSafeEqual(BufferFromHex(expected), BufferFromHex(computed))
  IN IF r = Lancou THEN "false" ELSE r

CorposAssinados == {"b1", "b2"}
Segredos == {"s1", "s2"}

\* crypto.createHmac("sha256", secret).update(rawBody).digest("hex"): 64
\* lowercase hexadecimal characters, different for each pair of secret and
\* body of the model.
HmacSha256Hex(secret, rawBody) ==
  LET passo == IF secret = "s1" THEN 3 ELSE 5
      inicio == IF rawBody = "b1" THEN 1 ELSE 8
  IN [i \in 1..TamanhoDigestHex |-> DigitosHex[((inicio + passo * i) % 16) + 1]]

PrefixoSha256 == <<"s", "h", "a", "2", "5", "6", "=">>

startsWith(s, prefixo) ==
  Len(s) >= Len(prefixo) /\ SubSeq(s, 1, Len(prefixo)) = prefixo

slice(s, de) == SubSeq(s, de + 1, Len(s))

\* Takes the whole header for the digest, "sha256=" included.
verificarHmacHandoff_SemPrefixo(rawBody, signatureHeader, secret) ==
  LET expected == signatureHeader
  IN IF expected = <<>> \/ Len(expected) < 10
       THEN "false"
       ELSE TentaComparar(expected, HmacSha256Hex(secret, rawBody))

verificarHmacHandoff(rawBody, signatureHeader, secret) ==
  LET expected == IF startsWith(signatureHeader, PrefixoSha256)
                    THEN slice(signatureHeader, Len(PrefixoSha256))
                    ELSE signatureHeader
  IN IF expected = <<>> \/ Len(expected) < 10
       THEN "false"
       ELSE TentaComparar(expected, HmacSha256Hex(secret, rawBody))

validarAssinaturaWebhook(rawBody, signatureHeader, appSecret) ==
  IF signatureHeader = <<>> \/ ~startsWith(signatureHeader, PrefixoSha256)
    THEN "false"
    ELSE TentaComparar(slice(signatureHeader, Len(PrefixoSha256)),
                       HmacSha256Hex(appSecret, rawBody))

Verificadores == {"verificarHmacHandoff", "validarAssinaturaWebhook"}

\* The runs of 1..MaxExtras characters a sender may append: hexadecimal
\* digits and characters that are none.
RECURSIVE ExtrasDe(_)
ExtrasDe(n) ==
  IF n = 0 THEN {<<>>}
  ELSE LET menores == ExtrasDe(n - 1)
       IN menores \cup {e \o <<c>> : e \in {m \in menores : Len(m) = n - 1},
                                     c \in {"a", "z"}}

Extras == ExtrasDe(MaxExtras) \ {<<>>}

\* The values a header may carry for a delivery whose digest is h: h itself,
\* the digest of something else, h cut short, h with a character replaced,
\* h followed by extra characters, nothing.
ValoresDeHeader(h, outro) ==
  {h, outro, <<>>}
    \cup {SubSeq(h, 1, k) : k \in {8, 9, 10, 11, TamanhoDigestHex - 2, TamanhoDigestHex - 1}}
    \cup {[h EXCEPT ![i] = c] : i \in {1, 2, TamanhoDigestHex - 1, TamanhoDigestHex},
                                c \in {"z", "0", "F"}}
    \cup {h \o e : e \in Extras}

\* Each value bare and behind "sha256=".
HeadersDe(h, outro) ==
  LET valores == ValoresDeHeader(h, outro)
  IN valores \cup {PrefixoSha256 \o v : v \in valores}

InitAssinatura ==
  /\ sRawBody \in CorposAssinados
  /\ sSecret \in Segredos
  /\ \E outro \in CorposAssinados \ {sRawBody} :
       sHeader \in HeadersDe(HmacSha256Hex(sSecret, sRawBody),
                             HmacSha256Hex(sSecret, outro))
  /\ sRetorno = [f \in Verificadores |-> Pendente]

\* The handoff webhook puts the delivery to verificarHmacHandoff.
ChamaVerificarHmacHandoff ==
  /\ sRetorno["verificarHmacHandoff"] = Pendente
  /\ sRetorno' = [sRetorno EXCEPT !["verificarHmacHandoff"] =
                    verificarHmacHandoff(sRawBody, sHeader, sSecret)]
  /\ UNCHANGED <<sRawBody, sSecret, sHeader>>
  /\ UNCHANGED foraAssinatura

\* The messaging webhook puts the delivery to validarAssinaturaWebhook.
ChamaValidarAssinaturaWebhook ==
  /\ sRetorno["validarAssinaturaWebhook"] = Pendente
  /\ sRetorno' = [sRetorno EXCEPT !["validarAssinaturaWebhook"] =
                    validarAssinaturaWebhook(sRawBody, sHeader, sSecret)]
  /\ UNCHANGED <<sRawBody, sSecret, sHeader>>
  /\ UNCHANGED foraAssinatura

AssinaturaActions ==
  \/ ChamaVerificarHmacHandoff
  \/ ChamaValidarAssinaturaWebhook

-----------------------------------------------------------------------------
(* normalizarTelefoneE164 applied to what it returned *)

\* The most digits of a number put to the normalizer, and how often the
\* normalizer is applied to its own result.
MaxDigitosTel == 14
MaxAplicacoes == 2

PrefixosDePais == {<<"5", "5">>, <<"4", "4">>, <<"5", "4">>, <<"9", "5">>}

\* n digits that begin with the country prefix.
NumeroDe(pais, n) ==
  [i \in 1..n |-> IF i <= 2 THEN pais[i]
                  ELSE IF i <= 4 THEN "1"
                  ELSE IF i = 5 THEN "8"
                  ELSE IF i % 2 = 0 THEN "7" ELSE "3"]

\* The ways a number is written: bare, "+" in front, "+" and a blank after the
\* country prefix and a dash before the last four digits.
Escritas == {"digitos", "mais", "formatado"}

Escrever(numero, escrita) ==
  CASE escrita = "digitos" -> numero
    [] escrita = "mais" -> <<"+">> \o numero
    [] escrita = "formatado" ->
         IF Len(numero) > 6
           THEN <<"+">> \o SubSeq(numero, 1, 2) \o <<" ">>
                  \o SubSeq(numero, 3, Len(numero) - 4) \o <<"-">>
                  \o SubSeq(numero, Len(numero) - 3, Len(numero))
           ELSE <<"(">> \o numero \o <<")">>

\* What follows the number: nothing, a JID suffix, a JID suffix with digits,
\* two suffixes.
SufixosDeJid ==
  {<<>>, <<"@", "c", ".", "u", "s">>, <<"@", "5", "5">>, <<"@", "1", "@", "2">>}

EntradasDoNormalizador ==
  {Escrever(NumeroDe(pais, n), escrita) \o sufixo :
     pais \in PrefixosDePais, n \in 2..MaxDigitosTel, escrita \in Escritas,
     sufixo \in SufixosDeJid}
    \cup {<<>>, <<"@">>, <<"a", "b", "c">>}

InitTelefone ==
  /\ telEntrada \in EntradasDoNormalizador
  /\ telSaidas = <<>>
  /\ telMascara = <<>>

\* The normalizer is applied to the input, then to what it returned.
AplicarNormalizador ==
  /\ Len(telSaidas) < MaxAplicacoes
  /\ telSaidas' = Append(telSaidas,
       normalizarTelefoneE164(IF telSaidas = <<>> THEN telEntrada
                         ELSE telSaidas[Len(telSaidas)]))
  /\ UNCHANGED <<telEntrada, telMascara>>
  /\ UNCHANGED foraTelefone

Asteriscos == <<"*", "*", "*", "*">>

\* tel.slice(-n) of a string longer than n.
sliceDoFim(tel, n) == SubSeq(tel, Len(tel) - n + 1, Len(tel))

\* mascararTelefone: "****" for up to 8 characters, otherwise the first four,
\* "****" and the last five.
mascararTelefone(tel) ==
  IF Len(tel) <= 8
    THEN Asteriscos
    ELSE SubSeq(tel, 1, 4) \o Asteriscos \o sliceDoFim(tel, 5)

\* A log line is written for the number: the callers mask what
\* normalizarTelefoneE164 returned.
MascararParaLog ==
  /\ telSaidas # <<>>
  /\ telMascara = <<>>
  /\ telMascara' = mascararTelefone(telSaidas[1])
  /\ UNCHANGED <<telEntrada, telSaidas>>
  /\ UNCHANGED foraTelefone

TelefoneActions ==
  \/ AplicarNormalizador
  \/ MascararParaLog

-----------------------------------------------------------------------------
(* Specifications *)

-----------------------------------------------------------------------------
(* The handoff webhook of Chatwoot: processarEventoHandoffChatwootAssinado, *)
(* one call after the other, on a platform other than win32.               *)

NumEventos == 2

HANDOFF_CHATWOOT_MINUTOS == 1440

\* The raw body of the deliveries and the secret of the gateway.
CorpoDoEvento == "b1"
SegredoDoEvento == "s1"

\* The signature header of a delivery: the digest of the body, bare or after
\* "sha256=", the digest of another body, or an empty header.
HeadersDeEvento ==
  {HmacSha256Hex(SegredoDoEvento, CorpoDoEvento),
   PrefixoSha256 \o HmacSha256Hex(SegredoDoEvento, CorpoDoEvento),
   HmacSha256Hex(SegredoDoEvento, "b2"),
   <<>>}

\* What the raw body holds.  json: JSON.parse succeeds.  event: payload.event,
\* "" when it is missing or not a string.  conversaId: conversation.id is a
\* number.  temTelefone: contact.phone_number is a string.  status:
\* payload.status, "undefined" when missing.
Conteudo(event, conversaId, temTelefone, phone, status) ==
  [json |-> TRUE, event |-> event, conversaId |-> conversaId, temTelefone |-> temTelefone,
   phone_number |-> phone, status |-> status]

NaoJson ==
  [json |-> FALSE, event |-> "", conversaId |-> FALSE, temTelefone |-> FALSE,
   phone_number |-> <<>>, status |-> "undefined"]

StatusDeConversa == {"resolved", "open", "pending", "undefined"}

Conteudos ==
  {NaoJson}
  \cup {Conteudo("conversation_status_changed", TRUE, TRUE, t, st) :
          t \in {TelA, TelOutro}, st \in StatusDeConversa}
  \cup {Conteudo(ev, TRUE, TRUE, TelA, st) :
          ev \in {"message_created", ""}, st \in {"resolved", "open"}}
  \cup {Conteudo("conversation_status_changed", FALSE, TRUE, TelA, st) :
          st \in {"resolved", "open"}}
  \cup {Conteudo("conversation_status_changed", TRUE, FALSE, <<>>, st) :
          st \in {"resolved", "open"}}
  \cup {Conteudo("conversation_status_changed", TRUE, TRUE, TelInvalido, st) :
          st \in {"resolved", "open"}}

\* verificarHmacHandoff(rawBody, signatureHeader, secret) of each delivery.
VerificacaoDoEvento ==
  [h \in HeadersDeEvento |-> verificarHmacHandoff(CorpoDoEvento, h, SegredoDoEvento)]

RetornoOk(action) == [ok |-> TRUE, texto |-> action]
RetornoErro(error) == [ok |-> FALSE, texto |-> error]
SemRetorno == [ok |-> FALSE, texto |-> "-"]

\* The mapping as the comment above the function has it: "Reabrir" pauses
\* the bot, "Resolver" brings it back.
AcaoDoStatus_ComoNoComentario(status) ==
  IF status = "open" THEN "activate"
  ELSE IF status = "resolved" THEN "deactivate"
  ELSE "-"

\* status === "resolved": activateHandoff; status === "open":
\* deactivateHandoff; any other status: neither.
AcaoDoStatus(status) ==
  IF status = "resolved" THEN "activate"
  ELSE IF status = "open" THEN "deactivate"
  ELSE "-"

\* processarEventoHandoffChatwoot up to its call of the handoff store: the
\* call it makes (acao) and what it returns (when that call resolves).
processarEventoHandoffChatwoot(payload) ==
  IF payload.event = ""
  THEN [acao |-> "-", retorno |-> RetornoErro("payload invalido: event")]
  ELSE IF payload.event # "conversation_status_changed"
  THEN [acao |-> "-", retorno |-> RetornoOk("ignorado")]
  ELSE IF ~payload.conversaId
  THEN [acao |-> "-", retorno |-> RetornoErro("payload invalido: conversation.id")]
  ELSE IF ~payload.temTelefone
  THEN [acao |-> "-", retorno |-> RetornoOk("ignorado:sem-telefone")]
  ELSE IF ~telefoneValido(normalizarTelefoneE164(payload.phone_number))
  THEN [acao |-> "-", retorno |-> RetornoErro("telefone invalido")]
  ELSE IF AcaoDoStatus(payload.status) = "activate"
  THEN [acao |-> "activate", retorno |-> RetornoOk("handoff-on")]
  ELSE IF AcaoDoStatus(payload.status) = "deactivate"
  THEN [acao |-> "deactivate", retorno |-> RetornoOk("handoff-off")]
  ELSE [acao |-> "-", retorno |-> RetornoOk("ignorado:status")]

\* The signed entry point parsing and processing the body whatever the
\* signature.
processarEventoHandoffChatwootAssinado_SemVerificar(verificado, conteudo) ==
  IF ~conteudo.json
  THEN [passos |-> <<"parse">>, acao |-> "-", retorno |-> RetornoErro("json invalido")]
  ELSE [passos |-> <<"parse", "processa">>,
        acao |-> processarEventoHandoffChatwoot(conteudo).acao,
        retorno |-> processarEventoHandoffChatwoot(conteudo).retorno]

\* processarEventoHandoffChatwootAssinado: what it does with the raw body, in
\* order (passos), and the outcome.  verificado: what verificarHmacHandoff(
\* rawBody, signatureHeader, secret) returned.  conteudo: what the bytes of
\* rawBody hold.
processarEventoHandoffChatwootAssinado(verificado, conteudo) ==
  IF verificado # "true"
  THEN [passos |-> <<"verifica">>, acao |-> "-",
        retorno |-> RetornoErro("assinatura invalida")]
  ELSE IF ~conteudo.json
  THEN [passos |-> <<"verifica", "parse">>, acao |-> "-",
        retorno |-> RetornoErro("json invalido")]
  ELSE [passos |-> <<"verifica", "parse", "processa">>,
        acao |-> processarEventoHandoffChatwoot(conteudo).acao,
        retorno |-> processarEventoHandoffChatwoot(conteudo).retorno]

\* pc: "ocioso" | "salvando" (awaiting saveStore) | "retornou" | "lancou".
\* n: the calls begun.  store: the list passed to saveStore.
EventoOcioso ==
  [pc |-> "ocioso", n |-> 0, header |-> <<>>, conteudo |-> NaoJson, passos |-> <<>>,
   acao |-> "-", store |-> <<>>, retorno |-> SemRetorno]

\* The caches after messages of TelA's and of TelOutro's number were mirrored.
CacheDosEspelhados ==
  <<[chave |-> normalizarTelefoneE164(TelA), valor |-> 1,
     expira |-> CacheTtlMs(CACHE_TTL_MINUTOS)],
    [chave |-> normalizarTelefoneE164(TelOutro), valor |-> 2,
     expira |-> CacheTtlMs(CACHE_TTL_MINUTOS)]>>

\* No call yet; the handoff file is missing or holds an entry of TelOutro;
\* Chatwoot and the caches hold the contacts and conversations of two numbers.
InitEvento ==
  /\ evento = EventoOcioso
  /\ InitHandoffCom({FALSE}, {ArquivoAusente, ArquivoDeAntes})
  /\ espelho = [m \in Espelhos |-> EspelhoOcioso]
  /\ cacheContatos = CacheDosEspelhados
  /\ cacheConversas = CacheDosEspelhados
  /\ contatoEmVoo = [k \in ChavesDeContato |-> 0]
  /\ remContatos = [k \in ChavesDeContato |->
       IF k = normalizarTelefoneE164(TelA) THEN {1}
       ELSE IF k = normalizarTelefoneE164(TelOutro) THEN {2} ELSE {}]
  /\ remConversas = [c \in ContatoIds |-> IF c \in {1, 2} THEN {c} ELSE {}]
  /\ proxContatoId = 3
  /\ proxConversaId = 3
  /\ cAgora = 0
  /\ cAvancos = 0

\* A delivery arrives: the handler runs up to its return or, with a handoff
\* to switch, up to the first suspension of saveStore.  deactivateHandoff
\* without an entry of the number saves nothing.
EventoChegar ==
  /\ evento.pc # "salvando"
  /\ evento.n < NumEventos
  /\ \E header \in HeadersDeEvento, conteudo \in Conteudos :
       LET d == processarEventoHandoffChatwootAssinado(VerificacaoDoEvento[header], conteudo)
           telefoneNormalizado == normalizarTelefoneE164(conteudo.phone_number)
           carregado == loadStore(hArquivo, hAgora)
           store == IF d.acao = "activate"
                    THEN activateHandoffStore(hArquivo, telefoneNormalizado,
                           "chatwoot:resolver", HANDOFF_CHATWOOT_MINUTOS, hAgora)
                    ELSE SemNumero(carregado, normalizeE164(telefoneNormalizado))
           salva == \/ d.acao = "activate"
                    \/ d.acao = "deactivate" /\ Len(store) < Len(carregado)
       IN evento' =
            [pc |-> IF salva THEN "salvando" ELSE "retornou", n |-> evento.n + 1,
             header |-> header, conteudo |-> conteudo, passos |-> d.passos,
             acao |-> d.acao, store |-> IF salva THEN store ELSE <<>>,
             retorno |-> IF salva THEN SemRetorno ELSE d.retorno]
  /\ UNCHANGED <<hArquivo, cacheConversas>>
  /\ UNCHANGED foraEvento

\* saveStore settles.  Resolved: the file is replaced by the rename, and after
\* activateHandoff the handler calls invalidarCacheConversa and returns.
\* Rejected (mkdir, writeFile or rename failed): the file is as it was and the
\* handler rejects.
EventoSalvar ==
  /\ evento.pc = "salvando"
  /\ \E ok \in BOOLEAN :
       IF ok
       THEN /\ hArquivo' = ArquivoValido(evento.store)
            /\ cacheConversas' =
                 IF evento.acao = "activate"
                 THEN CacheDelete(cacheConversas,
                                  normalizarTelefoneE164(evento.conteudo.phone_number))
                 ELSE cacheConversas
            /\ evento' = [evento EXCEPT
                 !.pc = "retornou", !.store = <<>>,
                 !.retorno = processarEventoHandoffChatwoot(evento.conteudo).retorno]
       ELSE /\ evento' = [evento EXCEPT !.pc = "lancou", !.store = <<>>]
            /\ UNCHANGED <<hArquivo, cacheConversas>>
  /\ UNCHANGED foraEvento

EventoActions == EventoChegar \/ EventoSalvar

EventoParado == evento = EventoOcioso

-----------------------------------------------------------------------------
(* The contact profile cache: buscarPerfilContato, with the configured,    *)
(* parseable webhook URL.                                                  *)

NumChamadas == 2
MaxAvancosPerfil == 2
\* MAX_ENTRADAS_CACHE (5000 in the source), as small as the calls can fill.
MaxEntradasPerfil == 1

TTL_PADRAO_MINUTOS == 30
\* 2 * 60 * 1000
TTL_SENTINELA_MS == 120000
\* 10 * 60 * 1000
INTERVALO_LIMPEZA_MS == 600000

ChamadasDePerfil == 1..NumChamadas
TelefonesDePerfil == 1..(MaxEntradasPerfil + 1)

\* What the webhook gives a lookup: a profile ("ok"), an empty result
\* ("vazio"), or a status that is not ok, a body that is not JSON, a timeout
\* or a network error ("erro").
ResultadosDoWebhook == {"ok", "vazio", "erro"}

PerfilFormatado == "perfil"
SemDados == "undefined"

\* (params.cacheTtlMinutes ?? TTL_PADRAO_MINUTOS) * 60_000
ttlMsDe(minutos) ==
  (IF minutos = Indefinido THEN TTL_PADRAO_MINUTOS ELSE minutos) * 60000

\* entrada.status === "ok" ? ttlMs : TTL_SENTINELA_MS
ttlDaEntrada(entrada, ttlMs) == IF entrada.status = "ok" THEN ttlMs ELSE TTL_SENTINELA_MS

\* limparExpirados
limparExpirados(mapa, ttlOkMs, agora) ==
  SelectSeq(mapa, LAMBDA e : ~(agora - e.buscadoEm >= ttlDaEntrada(e, ttlOkMs)))

\* evictarMaisAntigo: deletes the first entry, in insertion order, of the
\* smallest buscadoEm.
evictarMaisAntigo(mapa) ==
  IF mapa = <<>> THEN mapa
  ELSE SemPosicao(mapa,
         CHOOSE i \in 1..Len(mapa) :
           /\ \A j \in 1..Len(mapa) : mapa[i].buscadoEm <= mapa[j].buscadoEm
           /\ \A j \in 1..(i - 1) : mapa[j].buscadoEm > mapa[i].buscadoEm)

\* cache.set(telefone, entrada)
perfilSet(mapa, entrada) ==
  IF Posicao(mapa, entrada.chave) = 0 THEN Append(mapa, entrada)
  ELSE [mapa EXCEPT ![Posicao(mapa, entrada.chave)] = entrada]

\* What a lookup writes once the webhook answered: a sentinel, or the profile
\* after an eviction at the cap.
guardarResultado(mapa, telefone, resultado, agora, maxEntradas) ==
  IF resultado = "ok"
  THEN perfilSet(IF Len(mapa) >= maxEntradas THEN evictarMaisAntigo(mapa) ELSE mapa,
                 [chave |-> telefone, status |-> "ok", dados |-> PerfilFormatado,
                  buscadoEm |-> agora])
  ELSE perfilSet(mapa, [chave |-> telefone, status |-> resultado, dados |-> SemDados,
                        buscadoEm |-> agora])

\* The cache test of a call with the entry served up to and including its
\* TTL.
entradaServe_AteOLimite(entrada, ttlMs, agora) ==
  agora - entrada.buscadoEm <= ttlDaEntrada(entrada, ttlMs)

\* agora - entrada.buscadoEm < ttlEntrada
entradaServe(entrada, ttlMs, agora) ==
  agora - entrada.buscadoEm < ttlDaEntrada(entrada, ttlMs)

\* pc: "ociosa" | "emVoo" (awaiting fetch) | "retornou".  agora: the const of
\* that name.  pediu: the call made a webhook request.
ChamadaOciosa ==
  [pc |-> "ociosa", telefone |-> 0, agora |-> 0, pediu |-> FALSE, retorno |-> SemDados]

\* Calls are interchangeable: call c begins after calls 1..c-1 have.
ProximaChamada(c) ==
  chamada[c].pc = "ociosa" /\ \A q \in 1..(c - 1) : chamada[q].pc # "ociosa"

\* The phones never looked up are interchangeable: of these only the smallest
\* is used next.
TelefoneVisto(t) ==
  \/ ultimoGuardado[t] # Nenhum
  \/ \E q \in ChamadasDePerfil : chamada[q].pc # "ociosa" /\ chamada[q].telefone = t

ProximoTelefone(t) == IF TelefoneVisto(t) THEN TRUE ELSE \A u \in 1..(t - 1) : TelefoneVisto(u)

\* The module was loaded at time 0; the cache is empty, or holds the profile
\* of phone 1 that a lookup begun and answered at time 0 put there.
InitPerfil ==
  /\ \E antes \in BOOLEAN :
       /\ perfilCache =
            IF antes THEN guardarResultado(<<>>, 1, "ok", 0, MaxEntradasPerfil) ELSE <<>>
       /\ ultimoGuardado = [t \in TelefonesDePerfil |->
            IF antes /\ t = 1 THEN [status |-> "ok", quando |-> 0, inicio |-> 0] ELSE Nenhum]
  /\ ultimaLimpeza = 0
  /\ cacheTtlMinutes \in {Indefinido, 2}
  /\ chamada = [c \in ChamadasDePerfil |-> ChamadaOciosa]
  /\ pAgora = 0
  /\ pAvancos = 0

\* buscarPerfilContato up to its return from the cache or to its await of
\* fetch: the periodic cleanup, then the cache test.
PerfilChamar(c) ==
  /\ ProximaChamada(c)
  /\ \E telefone \in TelefonesDePerfil :
       LET ttlMs == ttlMsDe(cacheTtlMinutes)
           limpa == pAgora - ultimaLimpeza > INTERVALO_LIMPEZA_MS
           mapa == IF limpa THEN limparExpirados(perfilCache, ttlMs, pAgora) ELSE perfilCache
           i == Posicao(mapa, telefone)
           serve == IF i = 0 THEN FALSE ELSE entradaServe(mapa[i], ttlMs, pAgora)
       IN /\ ProximoTelefone(telefone)
          /\ perfilCache' = mapa
          /\ ultimaLimpeza' = IF limpa THEN pAgora ELSE ultimaLimpeza
          /\ chamada' = [chamada EXCEPT ![c] =
               [pc |-> IF serve THEN "retornou" ELSE "emVoo", telefone |-> telefone,
                agora |-> pAgora, pediu |-> ~serve,
                retorno |-> IF serve THEN mapa[i].dados ELSE SemDados]]
  /\ UNCHANGED <<cacheTtlMinutes, ultimoGuardado, pAgora, pAvancos>>
  /\ UNCHANGED foraPerfil

\* fetch (and the reading of the body) settles: the result goes into the
\* cache under the time the call began, and the call returns.
PerfilResposta(c) ==
  /\ chamada[c].pc = "emVoo"
  /\ \E resultado \in ResultadosDoWebhook :
       /\ perfilCache' = guardarResultado(perfilCache, chamada[c].telefone, resultado, chamada[c].agora,
                                    MaxEntradasPerfil)
       /\ chamada' = [chamada EXCEPT ![c].pc = "retornou",
                                     ![c].retorno = IF resultado = "ok" THEN PerfilFormatado
                                                    ELSE SemDados]
       /\ ultimoGuardado' = [ultimoGuardado EXCEPT ![chamada[c].telefone] =
            [status |-> resultado, quando |-> pAgora, inicio |-> chamada[c].agora]]
  /\ UNCHANGED <<ultimaLimpeza, cacheTtlMinutes, pAgora, pAvancos>>
  /\ UNCHANGED foraPerfil

\* Time passes: by a millisecond while a lookup awaits the webhook (which
\* answers or is aborted within seconds), and otherwise up to the instant
\* before the sentinel TTL or by 28 minutes.
PassosDeTempoPerfil == {1, TTL_SENTINELA_MS - 1, (TTL_PADRAO_MINUTOS - 2) * 60000}

PerfilTempo ==
  /\ pAvancos < MaxAvancosPerfil
  /\ \E d \in PassosDeTempoPerfil :
       /\ d = 1 <=> \E c \in ChamadasDePerfil : chamada[c].pc = "emVoo"
       /\ pAgora' = pAgora + d
  /\ pAvancos' = pAvancos + 1
  /\ UNCHANGED <<perfilCache, ultimaLimpeza, cacheTtlMinutes, chamada, ultimoGuardado>>
  /\ UNCHANGED foraPerfil

PerfilActions ==
  \/ \E c \in ChamadasDePerfil : PerfilChamar(c)
  \/ \E c \in ChamadasDePerfil : PerfilResposta(c)
  \/ PerfilTempo

PerfilParado ==
  /\ perfilCache = <<>>
  /\ ultimaLimpeza = 0
  /\ cacheTtlMinutes = Indefinido
  /\ chamada = [c \in ChamadasDePerfil |-> ChamadaOciosa]
  /\ ultimoGuardado = [t \in TelefonesDePerfil |-> Nenhum]
  /\ pAgora = 0
  /\ pAvancos = 0

vars == <<varsRetry, varsEntrega, varsContato, varsHandoff, varsWebhook, varsCache,
  varsAssinatura, varsEnvio, varsTelefone, varsEvento, varsPerfil>>

\* Under the specification of one component the others rest in one state.
RetryParado == InitRetry
EntregaParada == InitEntregaCom({TRUE})
ContatoParado == InitContatoCom({0})
HandoffParado == InitHandoffCom({FALSE}, {ArquivoAusente})
WebhookParado == InitWebhook
CacheParado ==
  /\ tMapa = <<>>
  /\ tAgora = 0
  /\ tAvancos = 0
  /\ tOps = 0
  /\ ultimoSet = [k \in ChavesCache |-> Nenhum]
  /\ ultimaOp = SemOperacao

AssinaturaParada ==
  /\ sRawBody = "b1"
  /\ sSecret = "s1"
  /\ sHeader = <<>>
  /\ sRetorno = [f \in Verificadores |-> Pendente]

EnvioParado == InitEnvio

TelefoneParado ==
  /\ telEntrada = <<>>
  /\ telSaidas = <<>>
  /\ telMascara = <<>>

NextRetry == RetryActions

NextEntrega == EntregaActions

NextDurabilidade == EntregaActions \/ Reiniciar

NextContato == ContatoActions

NextHandoff == HandoffActions

NextWebhook == WebhookActions

NextCache == CacheActions

NextAssinatura == AssinaturaActions

NextEspelhamento == EspelhamentoActions

NextTelefone == TelefoneActions

InitSpecEntrega ==
  InitEntrega /\ RetryParado /\ ContatoParado /\ HandoffParado /\ WebhookParado /\ CacheParado
  /\ AssinaturaParada /\ EnvioParado /\ TelefoneParado /\ EventoParado /\ PerfilParado

\* The channel with a state directory, restarts included.
InitSpecDurabilidade ==
  InitEntregaCom({TRUE}) /\ RetryParado /\ ContatoParado /\ HandoffParado
  /\ WebhookParado /\ CacheParado
  /\ AssinaturaParada /\ EnvioParado /\ TelefoneParado /\ EventoParado /\ PerfilParado

\* The channel with a state directory in which the file is missing or was not
\* written by the channel, and in which writes may fail; restarts included.
ArquivosEncontrados ==
  {Nenhum, ArquivoIlegivel, ArquivoNaoJson, ArquivoJsonNull, ArquivoFormaErrada}

InitSpecArquivos ==
  InitEntregaDe({TRUE}, ArquivosEncontrados, BOOLEAN) /\ RetryParado /\ ContatoParado
  /\ HandoffParado /\ WebhookParado /\ CacheParado
  /\ AssinaturaParada /\ EnvioParado /\ TelefoneParado /\ EventoParado /\ PerfilParado

InitSpecRetry ==
  InitRetry /\ EntregaParada /\ ContatoParado /\ HandoffParado /\ WebhookParado /\ CacheParado
  /\ AssinaturaParada /\ EnvioParado /\ TelefoneParado /\ EventoParado /\ PerfilParado

InitSpecContato ==
  InitContato /\ RetryParado /\ EntregaParada /\ HandoffParado /\ WebhookParado /\ CacheParado
  /\ AssinaturaParada /\ EnvioParado /\ TelefoneParado /\ EventoParado /\ PerfilParado

InitSpecHandoff ==
  InitHandoff /\ RetryParado /\ EntregaParada /\ ContatoParado /\ WebhookParado /\ CacheParado
  /\ AssinaturaParada /\ EnvioParado /\ TelefoneParado /\ EventoParado /\ PerfilParado

InitSpecWebhook ==
  InitWebhook /\ RetryParado /\ EntregaParada /\ ContatoParado /\ HandoffParado /\ CacheParado
  /\ AssinaturaParada /\ EnvioParado /\ TelefoneParado /\ EventoParado /\ PerfilParado

InitSpecCache ==
  InitCache /\ RetryParado /\ EntregaParada /\ ContatoParado /\ HandoffParado
    /\ WebhookParado
  /\ AssinaturaParada /\ EnvioParado /\ TelefoneParado /\ EventoParado /\ PerfilParado

InitSpecAssinatura ==
  InitAssinatura /\ RetryParado /\ EntregaParada /\ ContatoParado /\ HandoffParado
  /\ WebhookParado /\ CacheParado /\ EnvioParado /\ TelefoneParado /\ EventoParado /\ PerfilParado

\* The sends and their mirrors, Chatwoot holding a contact for TelB's number.
InitSpecEspelhamento ==
  InitEnvio /\ InitContatoCom({1}) /\ RetryParado /\ EntregaParada /\ HandoffParado
  /\ WebhookParado /\ CacheParado /\ AssinaturaParada /\ TelefoneParado /\ EventoParado /\ PerfilParado

InitSpecTelefone ==
  InitTelefone /\ RetryParado /\ EntregaParada /\ ContatoParado /\ HandoffParado
  /\ WebhookParado /\ CacheParado /\ AssinaturaParada /\ EnvioParado /\ EventoParado /\ PerfilParado

SpecTelefone == InitSpecTelefone /\ [][NextTelefone]_vars

SpecEspelhamento == InitSpecEspelhamento /\ [][NextEspelhamento]_vars

SpecAssinatura == InitSpecAssinatura /\ [][NextAssinatura]_vars

SpecCache == InitSpecCache /\ [][NextCache]_vars

SpecWebhook == InitSpecWebhook /\ [][NextWebhook]_vars

\* The handoff file the webhook finds: an entry of another number that lasts
\* a day and an entry of the sender that expires one millisecond after the
\* dedup TTL.
ArquivoDePausa ==
  ArquivoValido(<<[number |-> normalizeE164(TelB), activatedBy |-> "chatwoot:resolver",
                   activatedAt |-> 0, expiresAt |-> 1440 * MsPorMinuto],
                  [number |-> normalizeE164(Remetente), activatedBy |-> "chatwoot:resolver",
                   activatedAt |-> 0, expiresAt |-> DEDUP_TTL_MS + 1]>>)

\* The webhook with handoffs in the store.
InitSpecPausa ==
  InitWebhook /\ InitHandoffCom({FALSE}, {ArquivoDePausa}) /\ RetryParado /\ EntregaParada
  /\ ContatoParado /\ CacheParado /\ AssinaturaParada /\ EnvioParado /\ TelefoneParado
  /\ EventoParado /\ PerfilParado

SpecPausa == InitSpecPausa /\ [][NextWebhook]_vars

NextEvento == EventoActions

NextPerfil == PerfilActions

InitSpecPerfil ==
  InitPerfil /\ RetryParado /\ EntregaParada /\ ContatoParado /\ HandoffParado
  /\ WebhookParado /\ CacheParado /\ AssinaturaParada /\ EnvioParado /\ TelefoneParado
  /\ EventoParado

SpecPerfil == InitSpecPerfil /\ [][NextPerfil]_vars

InitSpecEvento ==
  InitEvento /\ RetryParado /\ EntregaParada /\ WebhookParado /\ CacheParado
  /\ AssinaturaParada /\ EnvioParado /\ TelefoneParado /\ PerfilParado

SpecEvento == InitSpecEvento /\ [][NextEvento]_vars

SpecHandoff == InitSpecHandoff /\ [][NextHandoff]_vars

SpecContato == InitSpecContato /\ [][NextContato]_vars

SpecEntrega == InitSpecEntrega /\ [][NextEntrega]_vars

SpecDurabilidade == InitSpecDurabilidade /\ [][NextDurabilidade]_vars

SpecArquivos == InitSpecArquivos /\ [][NextDurabilidade]_vars

SpecRetry == InitSpecRetry /\ [][NextRetry]_vars

-----------------------------------------------------------------------------
(* Claims about comRetry (SpecRetry) *)

RetryTerminou == rPc \in {"retornou", "lancou"}

\* A failure caused by an HTTP 503 response that carries no Retry-After header.
Falha503SemRetryAfter(o) ==
  o.tipo = "erro" /\ o.http = 503 /\ o.retryAfter = SemRetryAfter /\ o.cabecalho = SemRetryAfter

(***************************************************************************)
(* C8: when the operation fails with a 503 (no Retry-After) on its first   *)
(* two invocations, comRetry has waited 1000 ms and then 2000 ms and goes  *)
(* on to a third invocation; when that one succeeds comRetry returns its   *)
(* result, after 3 invocations and those two waits.                        *)
(***************************************************************************)
C8_Retry503DuasVezes ==
  (/\ Len(historico) >= 2
   /\ Falha503SemRetryAfter(historico[1])
   /\ Falha503SemRetryAfter(historico[2]))
  => /\ esperas = <<1000, 2000>>
     /\ esperas[1] < esperas[2]
     /\ Len(historico) = 2 => ~RetryTerminou
     /\ (Len(historico) = 3 /\ historico[3].tipo = "ok")
          => /\ rPc = "retornou"
             /\ desfecho = historico[3]
             /\ chamadas = 3

C8_Witness ==
  /\ rPc = "retornou"
  /\ Len(historico) = 3
  /\ Falha503SemRetryAfter(historico[1])
  /\ Falha503SemRetryAfter(historico[2])
  /\ desfecho = Sucesso(3)

\* Permanent by the specification: an HTTP response arrived and its status is
\* not one of 429, 500, 502, 503, 504 (so not a timeout or a connection reset).
PermanentePelaSpec(o) ==
  o.tipo = "erro" /\ o.http # 0 /\ o.http \notin TRANSIENT_STATUS_CODES

(***************************************************************************)
(* C9: an error that is permanent (a response whose status is not 429,     *)
(* 500, 502, 503 or 504, whatever its body says) ends comRetry at once:    *)
(* no further invocation, no wait, and that error is the one thrown.       *)
(***************************************************************************)
C9_PermanenteNuncaRepetido ==
  \A i \in 1..Len(historico) :
    PermanentePelaSpec(historico[i])
      => /\ Len(historico) = i
         /\ chamadas = i
         /\ Len(esperas) = i - 1
         /\ rPc = "lancou"
         /\ desfecho = historico[i]

(***************************************************************************)
(* C10: comRetry invokes the operation at most 3 times and has ended once  *)
(* the third invocation settled; when all three failed, the error thrown   *)
(* is the third invocation's error.                                        *)
(***************************************************************************)
C10_TetoDeTentativas ==
  /\ chamadas <= 3
  /\ Len(historico) = 3 => RetryTerminou
  /\ (Len(historico) = 3 /\ \A i \in 1..3 : historico[i].tipo = "erro")
       => rPc = "lancou" /\ desfecho = historico[3]
  /\ rPc = "lancou" => desfecho = historico[Len(historico)]

C10_Witness ==
  /\ rPc = "lancou"
  /\ Len(historico) = 3
  /\ \A i \in 1..3 : historico[i].tipo = "erro" /\ isTransientError(historico[i])
  /\ desfecho = historico[3]
  /\ desfecho # historico[2]

\* The executor ended by rethrowing the error of invocation i.
LancouNaChamada(i) == rPc = "lancou" /\ Len(historico) = i /\ desfecho = historico[i]

(***************************************************************************)
(* C11: an invocation aborted at its deadline raises an error that is      *)
(* classified as transient, and unless it was the third invocation the     *)
(* executor does not end on it: it waits and invokes the operation again.  *)
(***************************************************************************)
C11_TimeoutRepetido ==
  \A i \in 1..Len(historico) :
    (historico[i].tipo = "erro" /\ historico[i].nome = "AbortError")
      => /\ isTransientError(historico[i])
         /\ i < MAX_RETRIES => ~LancouNaChamada(i)

\* Date.now() when invocation i settled: the waits before it have elapsed.
RECURSIVE QuandoFalhou(_)
QuandoFalhou(i) == IF i <= 1 THEN 0 ELSE QuandoFalhou(i - 1) + esperas[i - 1]

\* The wait a Retry-After header asks for at time agora, capped; Indefinido
\* when there is no header or it names no time to come.
EsperaDoCabecalho(h, agora) ==
  CASE h.tipo = "segundos" /\ h.val > 0 -> Min(h.val * 1000, RETRY_AFTER_CAP_MS)
    [] h.tipo = "data" /\ h.val > agora -> Min(h.val - agora, RETRY_AFTER_CAP_MS)
    [] OTHER -> Indefinido

(***************************************************************************)
(* C12: the i-th wait of the executor follows the response of the failed   *)
(* invocation i: with a Retry-After header (seconds, or a date to come) it *)
(* is the header's time and at most 60000 ms; with no header it is         *)
(* 1000 * 2^(i-1) ms.                                                      *)
(***************************************************************************)
C12_EsperaSegueRetryAfter ==
  \A i \in 1..Len(esperas) :
    LET h == historico[i].cabecalho
        e == EsperaDoCabecalho(h, QuandoFalhou(i))
    IN /\ e # Indefinido => esperas[i] = e /\ esperas[i] <= 60000
       /\ h = SemRetryAfter => esperas[i] = 1000 * (2 ^ (i - 1))

-----------------------------------------------------------------------------
(* Claims about the deliveries and the idempotency ledger (SpecEntrega) *)

Distancia(a, b) == IF a < b THEN b - a ELSE a - b

(***************************************************************************)
(* C2: of two delivery requests that carry the same idempotency key, at    *)
(* most one has a send accepted by the Graph API, in every interleaving    *)
(* (two accepted sends for one key are at least the 24 h TTL apart).       *)
(***************************************************************************)
C2_UmEnvioPorChave ==
  \A p \in Pedidos : \A q \in Pedidos \ {p} :
    (/\ pedido[p].chave # SemChave
     /\ pedido[p].chave = pedido[q].chave
     /\ pedido[p].entregues > 0
     /\ pedido[q].entregues > 0)
    => Distancia(pedido[p].quando, pedido[q].quando) >= IDEMPOTENCY_TTL_MS

\* The entry request p recorded for its key.
RegistroDe(p) ==
  [messageId |-> pedido[p].resultado.messageId, channel |-> "api-meta",
   timestamp |-> pedido[p].quando]

(***************************************************************************)
(* C3: when a delivery p with key K has completed with an accepted send    *)
(* and a delivery q with the same key begins less than 24 h later (p being *)
(* the only delivery that sent under K), q ends at once without invoking   *)
(* the Graph API send, returns the messageId (sendPayload: and the         *)
(* channel) p recorded, and the ledger holds exactly p's record for K      *)
(* while it has not expired.                                               *)
(***************************************************************************)
C3_SegundaEntregaSemEnvio ==
  \A q \in Pedidos : \A p \in pedido[q].precedentes :
    (\A r \in Pedidos \ {p, q} :
        pedido[r].chave = pedido[q].chave => pedido[r].entregues = 0)
    => /\ pedido[q].pc = "feito"
       /\ ~pedido[q].enviou
       /\ pedido[q].entregues = 0
       /\ pedido[q].resultado.tipo = "ok"
       /\ pedido[q].resultado.messageId = pedido[p].resultado.messageId
       /\ pedido[q].tipo = "sendPayload"
            => pedido[q].resultado.channel = RegistroDe(p).channel
       /\ eAgora - pedido[p].quando < IDEMPOTENCY_TTL_MS
            => idempotencyCache[pedido[q].chave] = RegistroDe(p)

C3_Witness ==
  \E q \in Pedidos : \E p \in pedido[q].precedentes :
    /\ pedido[q].pc = "feito"
    /\ pedido[q].tipo = "sendPayload"
    /\ pedido[q].resultado = RespostaOk("api-meta", pedido[p].resultado.messageId, TRUE)
    /\ eAgora - pedido[p].quando = IDEMPOTENCY_TTL_MS - 1

\* Delivery p invoked the send and ended without an accepted send.
EntregaFalhou(p) ==
  pedido[p].pc = "feito" /\ pedido[p].enviou /\ pedido[p].entregues = 0

\* The entry `e` of the ledger is the record of an accepted send with key k.
RegistroDeSucesso(e, k) ==
  \E p \in Pedidos :
    /\ pedido[p].chave = k
    /\ pedido[p].entregues > 0
    /\ e = RegistroDe(p)

(***************************************************************************)
(* C17: the ledger, in memory and on disk, holds for a key only the record *)
(* of an accepted send with that key: a delivery that failed (a permanent  *)
(* error, or transient errors on all attempts) leaves none, and a delivery *)
(* with a key under which every other delivery failed invokes the send     *)
(* (unless it has nothing to send).                                        *)
(***************************************************************************)
C17_SoSucessosNoLedger ==
  /\ \A k \in Chaves :
       /\ idempotencyCache[k] # Nenhum => RegistroDeSucesso(idempotencyCache[k], k)
       /\ (idemArquivo # Nenhum /\ idemArquivo[k] # Nenhum)
            => RegistroDeSucesso(idemArquivo[k], k)
  /\ \A q \in Pedidos :
       (/\ pedido[q].pc # "ocioso"
        /\ pedido[q].chave # SemChave
        /\ \A p \in Pedidos \ {q} :
             (pedido[p].chave = pedido[q].chave /\ pedido[p].pc # "ocioso")
               => EntregaFalhou(p))
       => \/ pedido[q].enviou
          \/ pedido[q].resultado.tipo = "erro" /\ pedido[q].resultado.http = 0

\* A delivery failed with a rethrown error, a second one with the same key had
\* its send accepted, and only that one is recorded, in memory and on disk.
C17_Witness ==
  \E p, q \in Pedidos :
    /\ p < q
    /\ EntregaFalhou(p)
    /\ pedido[p].resultado.tipo \in {"erro", "http"}
    /\ pedido[q].chave = pedido[p].chave
    /\ pedido[q].chave # SemChave
    /\ pedido[q].entregues = 1
    /\ idempotencyCache[pedido[q].chave] = RegistroDe(q)
    /\ idemArquivo = idempotencyCache

\* In this step delivery q begins, which looks its key up in the ledger.
ConsultaDe(q) ==
  pedido[q].pc = "ocioso" /\ pedido'[q].pc # "ocioso" /\ pedido'[q].chave # SemChave

\* This step is the sweep: the ledger changes and no delivery does.
PassoDeLimpeza == idempotencyCache' # idempotencyCache /\ pedido' = pedido

(***************************************************************************)
(* C18: a lookup of a key whose entry is less than 24 h old returns that   *)
(* entry (the delivery ends with its messageId) and leaves the table as it *)
(* is; a lookup of a key whose entry is 24 h old or older returns absent   *)
(* (the delivery is not answered from the ledger) and removes that entry   *)
(* from the table in memory; the sweep removes exactly the entries that    *)
(* are 24 h old or older.                                                  *)
(***************************************************************************)
C18_TtlDoLedger ==
  [][/\ \A q \in Pedidos :
          LET k == pedido'[q].chave IN
          (ConsultaDe(q) /\ idempotencyCache[k] # Nenhum) =>
             IF eAgora - idempotencyCache[k].timestamp < 86400000
             THEN /\ pedido'[q].pc = "feito"
                  /\ pedido'[q].resultado.tipo = "ok"
                  /\ pedido'[q].resultado.deduplicated
                  /\ pedido'[q].resultado.messageId = idempotencyCache[k].messageId
                  /\ idempotencyCache' = idempotencyCache
             ELSE /\ pedido'[q].resultado.tipo # "ok"
                  /\ idempotencyCache' = [idempotencyCache EXCEPT ![k] = Nenhum]
     /\ PassoDeLimpeza =>
          \A k \in Chaves :
            idempotencyCache'[k] =
              IF /\ idempotencyCache[k] # Nenhum
                 /\ eAgora - idempotencyCache[k].timestamp >= 86400000
              THEN Nenhum ELSE idempotencyCache[k]]_vars

\* A delivery began exactly 24 h after the accepted send recorded for its key:
\* the lookup gave absent and the delivery sent again.
C18_Witness ==
  \E p, q \in Pedidos :
    /\ pedido[p].chave # SemChave
    /\ pedido[q].chave = pedido[p].chave
    /\ pedido[p].entregues = 1
    /\ pedido[q].entregues = 1
    /\ pedido[q].quando - pedido[p].quando = IDEMPOTENCY_TTL_MS
    /\ idempotencyCache[pedido[q].chave] = RegistroDe(q)

\* In this step registrarIdempotency(k, ...) runs and returns.
RegistraNestePasso(p, k) ==
  /\ pedido[p].pc = "enviando"
  /\ pedido'[p].entregues > pedido[p].entregues
  /\ pedido[p].chave = k

\* A delivery with a key of `chaves` that began less than 24 h after the only
\* accepted send under that key ended without a send, with the recorded result.
RespondidaDoLedger(chaves) ==
  \A q \in Pedidos : \A p \in pedido[q].precedentes :
    (/\ pedido[q].chave \in chaves
     /\ \A r \in Pedidos \ {p, q} :
          pedido[r].chave = pedido[q].chave => pedido[r].entregues = 0)
    => /\ pedido[q].pc = "feito"
       /\ ~pedido[q].enviou
       /\ pedido[q].resultado.tipo = "ok"
       /\ pedido[q].resultado.messageId = pedido[p].resultado.messageId
       /\ pedido[q].tipo = "sendPayload"
            => pedido[q].resultado.channel = "api-meta"

\* With a state directory: a step in which registrarIdempotency returns leaves
\* the file equal, at the keys of `chaves`, to the table in memory, and every
\* step leaves the deliveries with a key of `chaves` answered from the ledger.
PassoDuravel(chaves) ==
  idempotencyFilePath =>
    /\ \A p \in Pedidos : \A k \in Chaves :
         RegistraNestePasso(p, k) =>
           /\ idemArquivo' # Nenhum
           /\ \A j \in chaves : idemArquivo'[j] = idempotencyCache'[j]
    /\ RespondidaDoLedger(chaves)'

(***************************************************************************)
(* C19: with a state directory configured, after registrarIdempotency(key, *)
(* result) has returned the table on disk equals the table in memory, and  *)
(* a delivery with that key that begins less than 24 h after the recording *)
(* is answered from the ledger with the recorded messageId and channel,    *)
(* also when the process was restarted in between and reloaded the ledger  *)
(* from disk.                                                              *)
(***************************************************************************)
C19_LedgerDuravel == [][PassoDuravel(Chaves)]_vars

\* The same for every key but "__proto__".
DurabilidadeDasOutrasChaves == [][PassoDuravel(Chaves \ {ChaveProto})]_vars

\* While no send was accepted, the table loaded from a file of `arquivos` is
\* empty; loadStore gives no entry for a missing or invalid handoff file; a
\* delivery whose send was accepted has returned its result, also when the
\* save of the ledger failed.
ArquivosNaoFalham(arquivos) ==
  /\ (idemArquivo \in arquivos /\ \A p \in Pedidos : pedido[p].entregues = 0)
       => idempotencyCache = LedgerVazio
  /\ \A a \in {ArquivoAusente, ArquivoInvalido} : loadStore(a, eAgora) = <<>>
  /\ \A p \in Pedidos :
       pedido[p].entregues > 0 =>
         /\ pedido[p].pc = "feito"
         /\ pedido[p].resultado.tipo = "ok"
         /\ ~pedido[p].resultado.deduplicated

(***************************************************************************)
(* C21: with the idempotency file absent, unreadable, not valid JSON, or   *)
(* valid JSON of the wrong shape, carregarIdempotencyDoDisco leaves an     *)
(* empty table, and loadStore returns an empty list for such a handoff     *)
(* file; no exception reaches the caller, and a delivery whose ledger save *)
(* failed still returns the result of its send.                            *)
(***************************************************************************)
C21_ArquivosNuncaFalham == ArquivosNaoFalham(ArquivosEncontrados)

\* The same for every file but the JSON of the wrong shape.
SemFormaErradaNaoFalham == ArquivosNaoFalham(ArquivosEncontrados \ {ArquivoFormaErrada})

\* The send of a delivery was accepted while the disk refused the write: the
\* entry is in memory only.
GravacaoFalhouSemErro ==
  \E p \in Pedidos :
    /\ ~idemDisco
    /\ pedido[p].chave = "k1"
    /\ pedido[p].entregues = 1
    /\ idempotencyCache["k1"] = RegistroDe(p)
    /\ idemArquivo \in {Nenhum, ArquivoIlegivel, ArquivoNaoJson, ArquivoJsonNull}

-----------------------------------------------------------------------------
(* Claims about the Chatwoot mirror (SpecContato) *)

(***************************************************************************)
(* C1: of the calls to buscarOuCriarContato for one normalized phone that  *)
(* overlap while the contact cache has no entry for it, exactly one runs   *)
(* buscarOuCriarContatoInterno (never two at a time for one key), the      *)
(* others await that one's promise and issue no request of their own, and  *)
(* each of them gets what the owner got: the same contact id or the same   *)
(* failure.                                                                *)
(***************************************************************************)
C1_CoalescerUmaVez ==
  /\ \A k \in ChavesDeContato :
       Cardinality({m \in Espelhos : espelho[m].pc \in EstagiosInterno /\ ChaveDe(m) = k}) <= 1
  /\ \A m \in Espelhos :
       LET o == espelho[m].dono IN
       (o # 0 /\ o # m) =>
          /\ espelho[o].dono = o
          /\ ChaveDe(o) = ChaveDe(m)
          /\ espelho[m].postsContato = 0
          /\ IF espelho[m].pc = "esperaContato"
             THEN espelho[o].pc \in EstagiosInterno /\ contatoEmVoo[ChaveDe(m)] = o
             ELSE espelho[m].contato # Nenhum /\ espelho[m].contato = espelho[o].contato

C1_Witness ==
  \E m \in Espelhos :
    LET o == espelho[m].dono IN
    /\ o # 0 /\ o # m
    /\ espelho[m].contato = Contato(proxContatoId - 1)
    /\ espelho[o].contato = espelho[m].contato
    /\ espelho[o].postsContato = 1
    /\ contatoEmVoo[ChaveDe(m)] = 0

\* Tasks a and b overlapped: one began while the other was in flight.
Concorrentes(a, b) == a \in espelho[b].emCurso \/ b \in espelho[a].emCurso

(***************************************************************************)
(* C6: a mirror from "+55 11 98888-7777" and a mirror from                 *)
(* "5511988887777@suffix" have the same (valid) key for the caches and the *)
(* registry; when the two overlap they issue at most one POST /contacts    *)
(* between them, they get the same contact, and at the time they got it    *)
(* cacheContatos holds that contact id for the key.                        *)
(***************************************************************************)
C6_MesmaIdentidade ==
  \A a, b \in Espelhos :
    (espelho[a].phone = TelA /\ espelho[b].phone = TelB) =>
      /\ ChaveDe(a) = ChaveDe(b)
      /\ telefoneValido(ChaveDe(a))
      /\ Concorrentes(a, b) =>
           /\ espelho[a].postsContato + espelho[b].postsContato <= 1
           /\ (espelho[a].contato # Nenhum /\ espelho[b].contato # Nenhum) =>
                /\ espelho[a].contato = espelho[b].contato
                /\ (espelho[a].contato.tipo = "id" /\ cAgora = espelho[a].quando) =>
                     LET g == CacheGet(cacheContatos, ChaveDe(a), cAgora) IN
                     g.achou /\ g.valor = espelho[a].contato.id

C6_Witness ==
  \E a, b \in Espelhos :
    /\ espelho[a].phone = TelA /\ espelho[b].phone = TelB
    /\ Concorrentes(a, b)
    /\ espelho[a].pc = "feito" /\ espelho[b].pc = "feito"
    /\ espelho[a].contato = Contato(2) /\ espelho[b].contato = Contato(2)
    /\ espelho[a].postsContato + espelho[b].postsContato = 1
    /\ CacheGet(cacheContatos, ChaveDe(b), cAgora).valor = 2

(***************************************************************************)
(* C7: two mirrors of one identifier that overlap issue at most one POST   *)
(* /conversations between them, and post their messages to the same        *)
(* conversation id.                                                        *)
(***************************************************************************)
C7_UmaConversaPorIdentificador ==
  \A a, b \in Espelhos :
    (/\ a # b
     /\ espelho[a].pc # "ocioso" /\ espelho[b].pc # "ocioso"
     /\ ChaveDe(a) = ChaveDe(b)
     /\ Concorrentes(a, b)) =>
      /\ espelho[a].postsConversa + espelho[b].postsConversa <= 1
      /\ (espelho[a].conversa # 0 /\ espelho[b].conversa # 0) =>
           espelho[a].conversa = espelho[b].conversa

\* The lookup that task a started has failed.
BuscaFalhou(a) ==
  espelho[a].pc = "feito" /\ espelho[a].dono = a /\ espelho[a].contato.tipo = "erro"

\* Task b called buscarOuCriarContato for its valid number after task a had
\* ended, with no lookup for that number outstanding.
ChamouDepoisDe(b, a) ==
  /\ a # b
  /\ espelho[b].pc # "ocioso"
  /\ espelho[b].resultado # "ignorado"
  /\ telefoneValido(ChaveDe(b))
  /\ ChaveDe(a) = ChaveDe(b)
  /\ a \notin espelho[b].emCurso
  /\ b \notin espelho[a].emCurso
  /\ \A q \in espelho[b].emCurso : ChaveDe(q) # ChaveDe(b)

(***************************************************************************)
(* C16: a key is in contatoEmVoo exactly while the lookup of the task      *)
(* that registered it is outstanding, so the registry is empty when no     *)
(* lookup is; and a call made after a lookup for its number failed is not  *)
(* given that failure: it starts a lookup of its own (unless a lookup that *)
(* succeeded since has put the contact in the cache).                      *)
(***************************************************************************)
C16_RegistroSoEnquantoEmVoo ==
  /\ \A k \in ChavesDeContato :
       contatoEmVoo[k] # 0 =>
         LET o == contatoEmVoo[k] IN
         espelho[o].pc \in EstagiosInterno /\ espelho[o].dono = o /\ ChaveDe(o) = k
  /\ \A m \in Espelhos :
       espelho[m].pc \in EstagiosInterno => contatoEmVoo[ChaveDe(m)] = m
  /\ \A a, b \in Espelhos :
       (BuscaFalhou(a) /\ ChamouDepoisDe(b, a))
         => \/ espelho[b].dono = b
            \/ espelho[b].dono = 0 /\ espelho[b].contato.tipo = "id"

\* After the lookup of one task failed, a later task for the same number ran
\* its own lookup and obtained a contact.
C16_Witness ==
  \E a, b \in Espelhos :
    /\ BuscaFalhou(a)
    /\ ChamouDepoisDe(b, a)
    /\ espelho[b].dono = b
    /\ espelho[b].contato.tipo = "id"
    /\ \A k \in ChavesDeContato : contatoEmVoo[k] = 0

-----------------------------------------------------------------------------
(* Claims about the handoff store (SpecHandoff) *)

\* The persisted store shows what the completed call o did: the entry it
\* activated, or no entry of the number it deactivated.
Reflete(o) ==
  LET n == operacao[o].normalized IN
  IF operacao[o].tipo = "activate"
  THEN \E i \in 1..Len(hArquivo.entries) :
         /\ hArquivo.entries[i].number = n
         /\ hArquivo.entries[i].activatedAt = operacao[o].quando
  ELSE \A i \in 1..Len(hArquivo.entries) : normalizeE164(hArquivo.entries[i].number) # n

(***************************************************************************)
(* C5: when two mutating calls on different numbers overlapped (one began  *)
(* while the other was inside its save) and both have completed, with no   *)
(* other call made, the persisted store reflects both: each activated      *)
(* number has its entry and each deactivated number has none.              *)
(***************************************************************************)
C5_StoreRefleteAmbas ==
  \A a, b \in Operacoes :
    (/\ a # b
     /\ operacao[a].resultado \in {"entry", "true"}
     /\ operacao[b].resultado \in {"entry", "true"}
     /\ operacao[a].normalized # operacao[b].normalized
     /\ a \in operacao[b].emCurso \/ b \in operacao[a].emCurso
     /\ \A r \in Operacoes \ {a, b} : operacao[r].pc = "ociosa")
    => /\ hArquivo.estado = "valido"
       /\ Reflete(a)
       /\ Reflete(b)

\* Call o is inside saveStore.
EmSave(o) == operacao[o].pc \in {"mkdir", "abrir", "writeDireto", "writeTmp", "rename"}

\* The target file is as a save left it (complete), or does not exist yet.
ArquivoCompleto == hArquivo.estado \in {"ausente", "valido"}

(***************************************************************************)
(* C20: at every point of a save of the handoff store the target file      *)
(* holds complete content (the previous or the new one), never a partial   *)
(* or empty file, so that a crash at that point leaves it readable.        *)
(***************************************************************************)
C20_ArquivoCompletoNoCrash ==
  \A o \in Operacoes : EmSave(o) => ArquivoCompleto

\* The same on every platform but win32.
ArquivoCompletoForaDoWin32 ==
  \A o \in Operacoes : (EmSave(o) /\ ~hWin32) => ArquivoCompleto

\* In this step call o of the given kind returns with `resultado`.
RetornaNestePasso(o, tipo, resultado) ==
  /\ operacao[o].pc # "feita"
  /\ operacao'[o].pc = "feita"
  /\ operacao'[o].tipo = tipo
  /\ operacao'[o].resultado = resultado

\* In this step deactivateHandoff is called as call o.
DesativaNestePasso(o) ==
  operacao[o].pc = "ociosa" /\ operacao'[o].tipo = "deactivate"

(***************************************************************************)
(* C22: when activateHandoff(n, by, m) returns, isHandoffActive(n) at that *)
(* instant gives an entry with expiresAt - activatedAt = m minutes; when   *)
(* deactivateHandoff(n), with no other call in flight during it, returns,  *)
(* isHandoffActive(n) gives absent; and deactivateHandoff finds nothing to *)
(* remove (returns false) exactly when isHandoffActive(n) gave absent at   *)
(* the call, and returns true only when it had found an entry.             *)
(***************************************************************************)
C22_IdaEVoltaDoHandoff ==
  [][\A o \in Operacoes :
       LET n == operacao'[o].normalized
           depois == isHandoffActive(hArquivo', n, hAgora')
       IN
       /\ RetornaNestePasso(o, "activate", "entry") =>
            /\ depois # Nenhum
            /\ depois.number = n
            /\ \E a \in Ativacoes :
                 /\ a.activatedBy = depois.activatedBy
                 /\ a.durationMinutes > 0
                 /\ depois.expiresAt - depois.activatedAt = a.durationMinutes * 60000
       /\ (/\ RetornaNestePasso(o, "deactivate", "true")
           /\ operacao[o].emCurso = {}
           /\ OperacoesEmCurso = {o}) => depois = Nenhum
       /\ DesativaNestePasso(o) =>
            (operacao'[o].resultado = "false") = (isHandoffActive(hArquivo, n, hAgora) = Nenhum)
       /\ RetornaNestePasso(o, "deactivate", "true") => operacao[o].pc # "ociosa"]_vars

\* A number was paused by a completed activateHandoff and released by a
\* deactivateHandoff that returned true: it is no longer paused.
C22_Witness ==
  \E a, b \in Operacoes :
    /\ operacao[a].tipo = "activate"
    /\ operacao[a].resultado = "entry"
    /\ operacao[b].tipo = "deactivate"
    /\ operacao[b].resultado = "true"
    /\ operacao[b].normalized = operacao[a].normalized
    /\ operacao[b].emCurso = {}
    /\ operacao[a].quando <= operacao[b].quando
    /\ isHandoffActive(hArquivo, operacao[a].normalized, hAgora) = Nenhum

\* The entries of the file for the normalized number n.
EntradasDe(arquivo, n) ==
  SelectSeq(arquivo.entries, LAMBDA e : normalizeE164(e.number) = n)

\* The entries of the file for other numbers than n that have not expired.
OutrasVivas(arquivo, n, agora) ==
  SelectSeq(arquivo.entries, LAMBDA e : normalizeE164(e.number) # n /\ e.expiresAt > agora)

AindaValem(arquivo, agora) ==
  IF arquivo.estado = "valido"
  THEN SelectSeq(arquivo.entries, LAMBDA e : ~(e.expiresAt <= agora))
  ELSE <<>>

(***************************************************************************)
(* C24: at every instant isHandoffActive(n) returns an entry exactly when  *)
(* the file holds an entry of n with expiresAt > now (and then returns     *)
(* such an entry), and listActiveHandoffs returns exactly the entries with *)
(* expiresAt > now: an entry whose duration has elapsed no longer pauses   *)
(* its number although it is still in the file.                            *)
(***************************************************************************)
C24_ExpiraNaLeitura ==
  /\ \A n \in NumerosHandoff :
       LET e == isHandoffActive(hArquivo, n, hAgora)
           valem == AindaValem(hArquivo, hAgora)
           deN == {i \in 1..Len(valem) : normalizeE164(valem[i].number) = normalizeE164(n)}
       IN
       /\ (e # Nenhum) = (deN # {})
       /\ e # Nenhum => \E i \in deN : valem[i] = e
  /\ listActiveHandoffs(hArquivo, hAgora) = AindaValem(hArquivo, hAgora)

\* A handoff of one minute was activated, one minute has passed and no call
\* was made since: its entry is still in the file and the number is not paused.
C24_Witness ==
  \E o \in Operacoes :
    /\ operacao[o].resultado = "entry"
    /\ hAgora = operacao[o].quando + 60000
    /\ hArquivo.estado = "valido"
    /\ \E i \in 1..Len(hArquivo.entries) :
         /\ hArquivo.entries[i].number = operacao[o].normalized
         /\ hArquivo.entries[i].expiresAt = hAgora
    /\ isHandoffActive(hArquivo, TelA, hAgora) = Nenhum
    /\ operacao[o].normalized = normalizeE164(TelA)
    /\ Len(listActiveHandoffs(hArquivo, hAgora)) < Len(hArquivo.entries)

-----------------------------------------------------------------------------
(* Claims about the Meta webhook (SpecWebhook) *)

(***************************************************************************)
(* C4: a message id carried by an authenticated POST has its processing    *)
(* started at its first delivery, and it is started once for all the       *)
(* deliveries within the dedup TTL, whether they come in one payload or in *)
(* several requests: two starts for one id are more than DEDUP_TTL_MS      *)
(* apart.                                                                  *)
(***************************************************************************)
C4_DedupUmaVez ==
  \A id \in MsgIds :
    /\ entregas[id] # {} =>
         inicios[id] # <<>> /\ \A t \in entregas[id] : inicios[id][1] <= t
    /\ \A i \in 1..Len(inicios[id]) : inicios[id][i] \in entregas[id]
    /\ \A i, j \in 1..Len(inicios[id]) :
         i < j => inicios[id][j] - inicios[id][i] > DEDUP_TTL_MS

\* An id started at time 0, then skipped in the same payload or in a request
\* handled at the same time, and skipped again DEDUP_TTL_MS later.
C4_Witness ==
  \E id \in MsgIds :
    /\ inicios[id] = <<0>>
    /\ pulos[id] = {0, DEDUP_TTL_MS}
    /\ \A r \in Requisicoes : requisicao[r] = "feita"

\* In this step the handler of request r, having read the body, runs to its end.
TrataCorpoNestePasso(r) == requisicao[r] = "lendo" /\ requisicao'[r] = "feita"

C26_RespostaAntesDeProcessar ==
  [][/\ \A r \in Requisicoes :
          (TrataCorpoNestePasso(r) /\ Len(tratamento') > 1) =>
             /\ tratamento'[1] = "responde"
             /\ \A i \in 2..Len(tratamento') : tratamento'[i] # "responde"
             /\ resposta' = 200
     /\ \A r \in Requisicoes :
          (/\ TrataCorpoNestePasso(r)
           /\ \/ processedIds' # processedIds
              \/ inicios' # inicios
              \/ emProcesso' > emProcesso) =>
             /\ resposta' = 200
             /\ tratamento' = <<"responde", "parse", "extrai", "loop">>
     /\ emProcesso' < emProcesso => resposta' = resposta /\ requisicao' = requisicao]_vars

\* An authenticated POST whose body is not JSON was answered 200.
C26_Witness ==
  /\ resposta = 200
  /\ tratamento = <<"responde", "parse">>
  /\ \E r \in Requisicoes : requisicao[r] = "feita"

-----------------------------------------------------------------------------
(* Claims about CacheTTL (SpecCache) *)

\* The last call was get(k) of a key whose last set was not followed by a
\* delete or an eviction of it.
LeituraDeChavePosta == ultimaOp.tipo = "get" /\ ultimoSet[ultimaOp.chave] # Nenhum

\* The time between the last set of the key read and the read.
IdadeNaLeitura == ultimaOp.quando - ultimoSet[ultimaOp.chave].quando

(***************************************************************************)
(* C13, as stated: a get of a key set d ms before (TTL t, no later set,    *)
(* delete or eviction of it) returns the value set when d < t and absent   *)
(* when d >= t, d = t included.                                            *)
(***************************************************************************)
C13_GetAbaixoDoTtl ==
  LeituraDeChavePosta =>
    /\ IdadeNaLeitura < CacheTtlMs(TtlMinutosCache)
         => ultimaOp.achou /\ ultimaOp.valor = ultimoSet[ultimaOp.chave].valor
    /\ IdadeNaLeitura >= CacheTtlMs(TtlMinutosCache) => ~ultimaOp.achou

(***************************************************************************)
(* C13, amended: a get of a key set d ms before returns the value set when *)
(* d <= t (d = t included); when d > t it returns absent and the entry is   *)
(* no longer stored.                                                       *)
(***************************************************************************)
C13_GetAteOTtl ==
  LeituraDeChavePosta =>
    /\ IdadeNaLeitura <= CacheTtlMs(TtlMinutosCache)
         => ultimaOp.achou /\ ultimaOp.valor = ultimoSet[ultimaOp.chave].valor
    /\ IdadeNaLeitura > CacheTtlMs(TtlMinutosCache)
         => ~ultimaOp.achou /\ Posicao(tMapa, ultimaOp.chave) = 0

\* A get exactly one TTL after the set returned the value.
C13_Witness ==
  /\ LeituraDeChavePosta
  /\ IdadeNaLeitura = CacheTtlMs(TtlMinutosCache)
  /\ ultimaOp.achou

(***************************************************************************)
(* C14: the instance never holds more than maxEntradas entries, in         *)
(* particular when a set returns, whether the key was present or not and   *)
(* whether entries had expired or not.                                     *)
(***************************************************************************)
C14_NuncaAcimaDoMaximo == Len(tMapa) <= MaxEntradasCache

\* A set of a new key on a full instance returned, and the instance is full.
C14_Witness ==
  /\ ultimaOp.tipo = "set"
  /\ ultimaOp.evictou
  /\ ultimoSet[ultimaOp.chave].quando = ultimaOp.quando
  /\ Len(tMapa) = MaxEntradasCache

(***************************************************************************)
(* C15, as stated: right after an eviction pass the count is at most 80%   *)
(* of maxEntradas.                                                         *)
(***************************************************************************)
C15_EvictarAte80 ==
  ultimaOp.evictou => Len(ultimaOp.aposEvictar) * 10 <= 8 * MaxEntradasCache

\* The entries of mapa not expired at agora, in insertion order.
Vivos(mapa, agora) == SelectSeq(mapa, LAMBDA e : e.expira >= agora)

(***************************************************************************)
(* C15, amended: an eviction pass leaves the entries that have not         *)
(* expired, in insertion order, when they are fewer than maxEntradas; when *)
(* they still fill the instance it leaves the floor(0.8 * maxEntradas)     *)
(* newest of them.                                                         *)
(***************************************************************************)
C15_EvictarSeAindaCheio ==
  [][(tOps' # tOps /\ ultimaOp'.evictou) =>
       LET v == Vivos(tMapa, tAgora)
           n == (8 * MaxEntradasCache) \div 10
       IN IF Len(v) >= MaxEntradasCache
          THEN ultimaOp'.aposEvictar = SubSeq(v, Len(v) - n + 1, Len(v))
          ELSE ultimaOp'.aposEvictar = v]_vars

\* An eviction pass found nothing expired and dropped the oldest entries.
C15_Witness ==
  /\ ultimaOp.evictou
  /\ Len(ultimaOp.aposEvictar) = (8 * MaxEntradasCache) \div 10
  /\ ultimaOp.aposEvictar[1].chave = MaxEntradasCache - Len(ultimaOp.aposEvictar) + 1

-----------------------------------------------------------------------------
(* Claims about the signature verifiers (SpecAssinatura) *)

\* The digest of the delivery's body under the gateway's secret.
DigestCorreto == HmacSha256Hex(sSecret, sRawBody)

\* The value of the header: what follows "sha256=", or all of a bare header.
ValorDoHeader ==
  IF startsWith(sHeader, PrefixoSha256) THEN slice(sHeader, Len(PrefixoSha256)) ELSE sHeader

\* The value has a character that is no hexadecimal digit, or is not 64
\* characters long.
ValorMalformado ==
  \/ Len(ValorDoHeader) # TamanhoDigestHex
  \/ \E i \in 1..Len(ValorDoHeader) : unhex(ValorDoHeader[i]) = Indefinido

\* Every verifier that was called with a malformed value, the values given
\* apart, returned false.
MalformadoRecusado(excluidos) ==
  \A f \in Verificadores :
    (ValorMalformado /\ ValorDoHeader \notin excluidos /\ sRetorno[f] # Pendente)
      => sRetorno[f] = "false"

\* The values that are the correct digest followed by extra characters.
DigestComExtras == {DigestCorreto \o e : e \in Extras}

(***************************************************************************)
(* C27: a header whose value has a non-hex character, or whose length is   *)
(* not the 64 characters of the digest, makes verificarHmacHandoff and     *)
(* validarAssinaturaWebhook return false, the correct digest followed by   *)
(* extra characters included; neither verifier throws.                     *)
(***************************************************************************)
C27_HeaderMalformadoRecusado ==
  /\ MalformadoRecusado({})
  /\ \A f \in Verificadores : sRetorno[f] # Lancou

\* The same for every malformed value but the digest followed by extras.
MalformadoSemExtrasRecusado ==
  /\ MalformadoRecusado(DigestComExtras)
  /\ \A f \in Verificadores : sRetorno[f] # Lancou

\* A digest followed by extras is accepted only when the extras are one
\* character or begin with a pair that is not two hexadecimal digits; it is
\* refused when they begin with such a pair.
ExtrasAceitosSoSemPar ==
  \A f \in Verificadores, e \in Extras :
    (ValorDoHeader = DigestCorreto \o e /\ sRetorno[f] = "true")
      => \/ Len(e) = 1
         \/ unhex(e[1]) = Indefinido
         \/ unhex(e[2]) = Indefinido

\* A verifier accepted the correct digest followed by a character that is no
\* hexadecimal digit.
DigestComLixoAceito ==
  \E f \in Verificadores :
    /\ ValorDoHeader = DigestCorreto \o <<"z">>
    /\ sRetorno[f] = "true"

\* A verifier refused the correct digest followed by two hexadecimal digits.
DigestComByteExtraRecusado ==
  \E f \in Verificadores :
    /\ ValorDoHeader = DigestCorreto \o <<"a", "a">>
    /\ sRetorno[f] = "false"

\* The header is the correct digest in one of the two dialects.
HeaderComPrefixo == sHeader = PrefixoSha256 \o DigestCorreto
HeaderPuro == sHeader = DigestCorreto

(***************************************************************************)
(* C28 as stated: for the correct digest h, verificarHmacHandoff and       *)
(* validarAssinaturaWebhook both return true for the header "sha256=" + h  *)
(* and for the bare header h.                                              *)
(***************************************************************************)
C28_DoisDialetos ==
  \A f \in Verificadores :
    ((HeaderComPrefixo \/ HeaderPuro) /\ sRetorno[f] # Pendente) => sRetorno[f] = "true"

(***************************************************************************)
(* C28 amended: for the correct digest h, verificarHmacHandoff returns     *)
(* true for "sha256=" + h and for the bare h; validarAssinaturaWebhook     *)
(* returns true for "sha256=" + h and false for the bare h.                *)
(***************************************************************************)
C28_DialetosPorVerificador ==
  /\ ((HeaderComPrefixo \/ HeaderPuro) /\ sRetorno["verificarHmacHandoff"] # Pendente)
       => sRetorno["verificarHmacHandoff"] = "true"
  /\ (HeaderComPrefixo /\ sRetorno["validarAssinaturaWebhook"] # Pendente)
       => sRetorno["validarAssinaturaWebhook"] = "true"
  /\ (HeaderPuro /\ sRetorno["validarAssinaturaWebhook"] # Pendente)
       => sRetorno["validarAssinaturaWebhook"] = "false"

\* Both verifiers were called with the bare digest: one accepted it, the other
\* refused it.
C28_Witness ==
  /\ HeaderPuro
  /\ sRetorno["verificarHmacHandoff"] = "true"
  /\ sRetorno["validarAssinaturaWebhook"] = "false"

\* Both verifiers accepted the digest behind "sha256=".
PrefixoAceitoPelosDois ==
  /\ HeaderComPrefixo
  /\ \A f \in Verificadores : sRetorno[f] = "true"

-----------------------------------------------------------------------------
(* Claims about a send and its mirror (SpecEspelhamento) *)

\* In this step espelharMensagemEntrada or espelharMensagemSaida is called for
\* task m.
EspelhoChamadoNestePasso(m) == espelho[m].pc = "ocioso" /\ espelho'[m].pc # "ocioso"

\* In this step comRetry gives sendText the result of the Graph API.
EnvioAceitoNestePasso == envio.pc = "emVoo" /\ envio'.api = "ok"

EnvioComTelefoneRecusado ==
  /\ envio.pc = "retornou"
  /\ envio.to = TelInvalido
  /\ espelho[envio.espelho].contato = Falha("Telefone invalido")

\* sendText returned the same result with a mirror task that reached the end.
EnvioComEspelhoTerminado ==
  /\ envio.pc = "retornou"
  /\ envio.resultado = RespostaOk("api-meta", 1, FALSE)
  /\ espelho[envio.espelho].resultado = "terminou"

-----------------------------------------------------------------------------
(* Claims about the phone normalizer (SpecTelefone) *)

\* The digits of the input before its first "@".
DigitosDaEntrada == SoDigitos(AntesDoArroba(telEntrada))

\* The input is one the ninth digit is inserted into.
EntradaSemNono ==
  Len(DigitosDaEntrada) = 12 /\ SubSeq(DigitosDaEntrada, 1, 2) = <<"5", "5">>

(***************************************************************************)
(* C30: normalizarTelefoneE164 applied to its own result returns that      *)
(* result, for every input, the inputs with 12 digits that begin with 55   *)
(* (into which the "9" is inserted) included.                              *)
(***************************************************************************)
C30_NormalizacaoIdempotente ==
  \A i \in 2..Len(telSaidas) : telSaidas[i] = telSaidas[1]

\* The normalizer inserted the "9" into a formatted number with a JID suffix,
\* and was applied to the result.
C30_Witness ==
  /\ EntradaSemNono
  /\ telEntrada # DigitosDaEntrada
  /\ Len(telSaidas) >= 2
  /\ Len(telSaidas[1]) = 13
  /\ telSaidas[1][5] = "9"
  /\ telSaidas[2] = telSaidas[1]

\* The number that was masked, and what of the mask is not an asterisk.
Mascarado == telSaidas[1]
VisivelNaMascara == SelectSeq(telMascara, LAMBDA c : c # "*")

\* The mask of a number whose length is none of those given shows less than
\* the number: what is visible of it is not the whole number.
MascaraOculta(excluidos) ==
  (telMascara # <<>> /\ Mascarado # <<>> /\ Len(Mascarado) \notin excluidos)
    => /\ VisivelNaMascara # Mascarado
       /\ Len(VisivelNaMascara) < Len(Mascarado)

(***************************************************************************)
(* C31: mascararTelefone keeps at most a prefix and a suffix of fixed      *)
(* length and blanks the middle, so the mask of an identifier never shows  *)
(* all its characters, the invalid identifiers that are masked in error    *)
(* messages included.                                                      *)
(***************************************************************************)
C31_MascaraOcultaParte == MascaraOculta({})

\* The same for every identifier that is not 9 characters long.
MascaraOcultaSalvoNove == MascaraOculta({9})

\* A number of 9 digits, which telefoneValido refuses, was masked for the
\* error message and every digit of it is in the mask.
NoveDigitosRevelados ==
  /\ telMascara # <<>>
  /\ Len(Mascarado) = 9
  /\ ~telefoneValido(Mascarado)
  /\ VisivelNaMascara = Mascarado

-----------------------------------------------------------------------------
(* Claims about the webhook under handoff (SpecPausa) *)

\* The handoff entry of the sender that has not expired at the webhook's time.
HandoffDoRemetente == isHandoffActive(hArquivo, Remetente, wAgora)

\* In this step processarMensagemCloudApi is called for message id.
IniciaNestePasso(id) == inicios'[id] # inicios[id]

(***************************************************************************)
(* C32: a message whose sender has an unexpired handoff entry when         *)
(* processarMensagemCloudApi looks is not handed to processMessage, so no  *)
(* reply is sent for it; without such an entry the message is handed to    *)
(* processMessage.                                                         *)
(***************************************************************************)
C32_HandoffPausaOAgente ==
  [][/\ \A id \in MsgIds :
          IniciaNestePasso(id) =>
            IF HandoffDoRemetente # Nenhum
              THEN agente'[id] = agente[id]
              ELSE agente'[id] = agente[id] + 1
     /\ \A id \in MsgIds : ~IniciaNestePasso(id) => agente'[id] = agente[id]
     /\ (HandoffDoRemetente # Nenhum) => emProcesso' <= emProcesso]_vars

\* A message was withheld from the agent while the sender's entry was valid
\* and its redelivery after the entry expired was handed to the agent.
C32_Witness ==
  \E id \in MsgIds :
    /\ Len(inicios[id]) = 2
    /\ inicios[id][1] = 0
    /\ agente[id] = 1
    /\ HandoffDoRemetente = Nenhum
    /\ isHandoffActive(hArquivo, TelB, wAgora) # Nenhum

\* A message was withheld from the agent and no redelivery of it was started.
MensagemPausada ==
  \E id \in MsgIds :
    /\ Len(inicios[id]) = 1
    /\ agente[id] = 0
    /\ HandoffDoRemetente # Nenhum

-----------------------------------------------------------------------------
(* Claims about the expiry of the dedup entries (SpecWebhook, SpecPausa) *)

\* The time at which the processing of id was last started.
UltimoInicio(id) == inicios[id][Len(inicios[id])]

(***************************************************************************)
(* C37 as stated: a message id is treated as already processed only while  *)
(* less than 10 minutes have passed since it was first seen; a redelivery  *)
(* more than 10 minutes after is processed again, whether or not the sweep *)
(* has run.  Here: every skip of an id happens at most 10 minutes after a  *)
(* start of its processing.                                                *)
(***************************************************************************)
C37_ExpiraSemVarredura ==
  \A id \in MsgIds : \A t \in pulos[id] :
    \E k \in 1..Len(inicios[id]) :
      inicios[id][k] <= t /\ t - inicios[id][k] <= DEDUP_TTL_MS

(***************************************************************************)
(* C37 amended: a message id is treated as already processed from when it  *)
(* is first seen until the sweep deletes it, whatever its age; the sweep   *)
(* deletes an id only when more than 10 minutes have passed since it was   *)
(* seen, so an id is processed again only more than 10 minutes after its   *)
(* last processing started, and only after a sweep.                        *)
(***************************************************************************)
C37_ExpiraPelaVarredura ==
  [][\A id \in MsgIds :
       /\ IniciaNestePasso(id) => processedIds[id] = Indefinido
       /\ (processedIds[id] # Indefinido /\ processedIds'[id] = Indefinido)
            => wAgora - processedIds[id] > DEDUP_TTL_MS
       /\ (IniciaNestePasso(id) /\ Len(inicios[id]) > 0)
            => wAgora - UltimoInicio(id) > DEDUP_TTL_MS
       /\ processedIds[id] # Indefinido
            => Len(inicios[id]) > 0 /\ processedIds[id] = UltimoInicio(id)]_vars

\* An id first seen at time 0 was skipped more than 10 minutes later, the
\* sweep not having run, and is still in the Map.
C37_Witness ==
  \E id \in MsgIds :
    /\ inicios[id] = <<0>>
    /\ (DEDUP_TTL_MS + 1) \in pulos[id]
    /\ processedIds[id] = 0

\* An id first seen at time 0 was processed again after the sweep deleted it.
ReprocessadaDepoisDaVarredura ==
  \E id \in MsgIds :
    /\ inicios[id] = <<0, DEDUP_TTL_MS + 1>>
    /\ processedIds[id] = DEDUP_TTL_MS + 1

(***************************************************************************)
(* C38: a message id is recorded in the step that starts its processing,   *)
(* and neither the end of the processing (with or without an error) nor a  *)
(* handoff skip removes the mark: a message is not started again within    *)
(* the dedup TTL of its last start.                                        *)
(***************************************************************************)
C38_MarcaAntesDeProcessar ==
  [][\A id \in MsgIds :
       /\ IniciaNestePasso(id) => processedIds'[id] = wAgora
       /\ emProcesso' < emProcesso => processedIds' = processedIds
       /\ (processedIds[id] # Indefinido /\ wAgora' - processedIds[id] <= DEDUP_TTL_MS)
            => processedIds'[id] = processedIds[id]
       /\ (IniciaNestePasso(id) /\ Len(inicios[id]) > 0)
            => wAgora' - UltimoInicio(id) > DEDUP_TTL_MS]_vars

\* A message withheld from the agent by the handoff was redelivered in a
\* later request, 10 minutes after, and skipped as a duplicate.
C38_Witness ==
  \E id \in MsgIds :
    /\ inicios[id] = <<0>>
    /\ agente[id] = 0
    /\ DEDUP_TTL_MS \in pulos[id]
    /\ processedIds[id] = 0

\* The processing of a message ended and its redelivery was skipped.
PuladaDepoisDeProcessar ==
  \E id \in MsgIds :
    /\ Len(inicios[id]) = 1
    /\ agente[id] = 1
    /\ emProcesso = 0
    /\ UltimoInicio(id) \in pulos[id]

-----------------------------------------------------------------------------
(* Claims about the handoff webhook of Chatwoot (SpecEvento) *)

\* In this step a delivery arrives at processarEventoHandoffChatwootAssinado.
ChegaNestePasso == evento'.n # evento.n

\* What verificarHmacHandoff returned for the delivery of call e.
AssinaturaDoEvento(e) == VerificacaoDoEvento[e.header]

\* The call returned { ok: false } at once, with nothing handed to the
\* handoff store.
RecusadoSemEfeito(e) ==
  /\ e.pc = "retornou"
  /\ ~e.retorno.ok
  /\ e.acao = "-"

(***************************************************************************)
(* C33: processarEventoHandoffChatwootAssinado verifies the HMAC of the    *)
(* raw body before it parses it; when the verification fails it returns    *)
(* {ok: false} and the handoff store and the conversation cache are left   *)
(* as they were; a body that verifies and is not JSON also returns         *)
(* {ok: false} with no change of state.                                    *)
(***************************************************************************)
C33_VerificaAntesDeLer ==
  [][/\ ChegaNestePasso =>
          /\ evento'.passos[1] = "verifica"
          /\ AssinaturaDoEvento(evento') # "true" =>
               /\ evento'.passos = <<"verifica">>
               /\ RecusadoSemEfeito(evento')
          /\ (AssinaturaDoEvento(evento') = "true" /\ ~evento'.conteudo.json) =>
               /\ evento'.passos = <<"verifica", "parse">>
               /\ RecusadoSemEfeito(evento')
          /\ hArquivo' = hArquivo
          /\ cacheConversas' = cacheConversas
     /\ (hArquivo' # hArquivo \/ cacheConversas' # cacheConversas) =>
          /\ AssinaturaDoEvento(evento) = "true"
          /\ evento.conteudo.json]_vars

\* A delivery that would switch off the handoff of TelOutro, signed with the
\* digest of another body, was refused and the handoff is still there.
C33_Witness ==
  /\ evento.pc = "retornou"
  /\ evento.header = HmacSha256Hex(SegredoDoEvento, "b2")
  /\ evento.conteudo = Conteudo("conversation_status_changed", TRUE, TRUE, TelOutro, "open")
  /\ ~evento.retorno.ok
  /\ isHandoffActive(hArquivo, TelOutro, hAgora) # Nenhum

\* A signed body that is not JSON was refused.
JsonInvalidoRecusado ==
  /\ evento.pc = "retornou"
  /\ AssinaturaDoEvento(evento) = "true"
  /\ evento.conteudo = NaoJson
  /\ evento.retorno = RetornoErro("json invalido")

\* A conversation_status_changed payload with a conversation id and a valid
\* contact phone.
EventoValido(c) ==
  /\ c.json
  /\ c.event = "conversation_status_changed"
  /\ c.conversaId
  /\ c.temTelefone
  /\ telefoneValido(normalizarTelefoneE164(c.phone_number))

\* The unexpired handoff entry of the contact of payload c in file arquivo.
HandoffDoContato(arquivo, c) == isHandoffActive(arquivo, c.phone_number, hAgora)

HandoffDesligado ==
  /\ evento.pc = "retornou"
  /\ evento.conteudo = Conteudo("conversation_status_changed", TRUE, TRUE, TelOutro, "open")
  /\ evento.retorno = RetornoOk("handoff-off")
  /\ hArquivo = ArquivoValido(<<>>)

\* A signed event of a status that is not mapped was answered and ignored.
StatusIgnorado ==
  /\ evento.pc = "retornou"
  /\ AssinaturaDoEvento(evento) = "true"
  /\ evento.conteudo = Conteudo("conversation_status_changed", TRUE, TRUE, TelOutro, "pending")
  /\ evento.retorno = RetornoOk("ignorado:status")
  /\ hArquivo = ArquivoDeAntes

\* saveStore of a "Resolver" rejected: the handler rejected with it.
ResolverSemGravar ==
  /\ evento.pc = "lancou"
  /\ evento.conteudo.status = "resolved"
  /\ HandoffDoContato(hArquivo, evento.conteudo) = Nenhum

-----------------------------------------------------------------------------
(* Claims about the contact profile cache (SpecPerfil) *)

\* In this step call c of buscarPerfilContato begins.
ComecaNestePasso(c) == chamada[c].pc = "ociosa" /\ chamada'[c].pc # "ociosa"

\* The call that begins answers from the cache, without a request: undefined
\* for a sentinel, the profile for a successful lookup.
ServidaDoCache(c, status) ==
  /\ ~chamada'[c].pediu
  /\ chamada'[c].pc = "retornou"
  /\ chamada'[c].retorno = IF status = "ok" THEN PerfilFormatado ELSE SemDados

(***************************************************************************)
(* C35 as stated: after buscarPerfilContato stored a sentinel for a phone, *)
(* calls for that phone within 2 minutes make no request and return        *)
(* undefined, and the first call 2 minutes or more later makes a request;  *)
(* after a successful lookup, calls within the configured success TTL make *)
(* no request and return the cached profile.  "Within" a TTL: less than    *)
(* the TTL after the lookup that stored the result began (and so after the *)
(* result was stored); "or more later": counted from when it was stored.   *)
(***************************************************************************)
C35_TtlDesdeGuardado ==
  [][\A c \in ChamadasDePerfil :
       ComecaNestePasso(c) =>
         LET g == ultimoGuardado[chamada'[c].telefone] IN
         g # Nenhum =>
           /\ (g.status # "ok" /\ pAgora - g.inicio < TTL_SENTINELA_MS)
                => ServidaDoCache(c, g.status)
           /\ (g.status # "ok" /\ pAgora - g.quando >= TTL_SENTINELA_MS)
                => chamada'[c].pediu
           /\ (g.status = "ok" /\ pAgora - g.inicio < ttlMsDe(cacheTtlMinutes))
                => ServidaDoCache(c, g.status)]_vars

(***************************************************************************)
(* C35 amended: the TTLs are counted from the time at which the lookup     *)
(* that stored the entry began, and hold while the entry is in the cache.  *)
(* A call for a phone whose entry is a sentinel begun less than 2 minutes  *)
(* before makes no request and returns undefined; with a sentinel begun 2  *)
(* minutes or more before it makes a request; with a profile begun less    *)
(* than the configured success TTL (default 30 minutes) before it makes no *)
(* request and returns the profile; without an entry it makes a request.   *)
(***************************************************************************)
C35_TtlDesdeOInicio ==
  [][\A c \in ChamadasDePerfil :
       ComecaNestePasso(c) =>
         LET i == Posicao(perfilCache, chamada'[c].telefone) IN
         /\ i = 0 => chamada'[c].pediu
         /\ i # 0 =>
              LET e == perfilCache[i] IN
              /\ (e.status # "ok" /\ pAgora - e.buscadoEm < TTL_SENTINELA_MS)
                   => ServidaDoCache(c, e.status)
              /\ (e.status # "ok" /\ pAgora - e.buscadoEm >= TTL_SENTINELA_MS)
                   => chamada'[c].pediu
              /\ (e.status = "ok" /\ pAgora - e.buscadoEm < ttlMsDe(cacheTtlMinutes))
                   => ServidaDoCache(c, e.status)
              /\ (e.status = "ok" /\ cacheTtlMinutes = Indefinido
                  /\ pAgora - e.buscadoEm < 30 * 60000)
                   => ServidaDoCache(c, e.status)]_vars

\* A lookup that began at 0 stored a sentinel a millisecond later; the next
\* call for the phone, 2 minutes after the first began, made a request.
C35_Witness ==
  \E c \in ChamadasDePerfil, q \in ChamadasDePerfil :
    /\ chamada[c].pc = "retornou" /\ chamada[c].agora = 0
    /\ chamada[q].pc = "emVoo" /\ chamada[q].agora = TTL_SENTINELA_MS
    /\ chamada[q].telefone = chamada[c].telefone
    /\ ultimoGuardado[chamada[c].telefone] # Nenhum
    /\ ultimoGuardado[chamada[c].telefone].status = "erro"
    /\ ultimoGuardado[chamada[c].telefone].quando = 1

\* A call an instant before the sentinel TTL was answered from the cache.
SentinelaServida ==
  \E c \in ChamadasDePerfil :
    /\ chamada[c].pc = "retornou" /\ ~chamada[c].pediu
    /\ chamada[c].agora = TTL_SENTINELA_MS - 1
    /\ chamada[c].retorno = SemDados

\* A call 28 minutes after a successful lookup, under the default TTL, was
\* answered with the profile.
PerfilServido ==
  \E c \in ChamadasDePerfil :
    /\ cacheTtlMinutes = Indefinido
    /\ chamada[c].pc = "retornou" /\ ~chamada[c].pediu
    /\ chamada[c].agora >= (TTL_PADRAO_MINUTOS - 2) * 60000
    /\ chamada[c].retorno = PerfilFormatado

(***************************************************************************)
(* C36: for every sequence of buscarPerfilContato calls, successful, empty *)
(* or failing, over any number of phones, the profile cache never holds    *)
(* more than MAX_ENTRADAS_CACHE entries after a call returns.              *)
(***************************************************************************)
C36_CacheLimitado == Len(perfilCache) <= MaxEntradasPerfil

\* The cache holds more entries than its cap, sentinels among them.
CacheAcimaDoLimite ==
  /\ Len(perfilCache) > MaxEntradasPerfil
  /\ \E i \in 1..Len(perfilCache) : perfilCache[i].status # "ok"
  /\ \A c \in ChamadasDePerfil : chamada[c].pc = "retornou"

-----------------------------------------------------------------------------
(* Claims about the creation of contacts (SpecContato) *)

\* In this step task o issues POST /contacts.
CriaContatoNestePasso(o) == espelho'[o].postsContato > espelho[o].postsContato

(***************************************************************************)
(* C39: whenever a contact whose phone digits equal the normalized         *)
(* identifier exists at Chatwoot, buscarOuCriarContato issues no POST      *)
(* /contacts, for every outcome of the two search requests, a failing      *)
(* search included.                                                        *)
(***************************************************************************)
C39_NaoCriaSeExiste ==
  [][\A o \in Espelhos :
       CriaContatoNestePasso(o) => remContatos[ChaveDe(o)] = {}]_vars

\* Chatwoot holds two contacts of one number, the second created by a task
\* that began when the first existed.
ContatoDuplicado ==
  \E o \in Espelhos :
    /\ espelho[o].postsContato = 1
    /\ espelho[o].contato = Contato(2)
    /\ remContatos[ChaveDe(o)] = {1, 2}

-----------------------------------------------------------------------------
(* Claims about the mirror of a delivery (SpecEntrega) *)

\* In this step espelharSeguro is called for request p.
EspelhaNestePasso(p) == pedido'[p].espelhos > pedido[p].espelhos

\* In this step the Graph API accepts the send of request p.
EnvioDoPedidoAceitoNestePasso(p) ==
  /\ pedido[p].pc = "enviando"
  /\ pedido'[p].entregues = pedido[p].entregues + 1
  /\ pedido'[p].resultado.tipo = "ok"
  /\ ~pedido'[p].resultado.deduplicated

(***************************************************************************)
(* C40: espelharSeguro is called for a delivery only in the step in which  *)
(* its primary send is accepted, once; a delivery that ends by a rethrow   *)
(* of comRetry, at the first error or after the retries, and a delivery    *)
(* answered from the idempotency ledger never have a mirror call, so no    *)
(* delivery has more mirror calls than accepted sends.                     *)
(***************************************************************************)
C40_EspelhoSoAposEnvio ==
  [][\A p \in Pedidos :
       /\ EspelhaNestePasso(p) =>
            /\ EnvioDoPedidoAceitoNestePasso(p)
            /\ pedido'[p].espelhos = pedido[p].espelhos + 1
       /\ pedido'[p].espelhos <= pedido'[p].entregues
       /\ (pedido'[p].pc = "feito" /\ pedido'[p].entregues = 0) =>
            pedido'[p].espelhos = 0]_vars

\* A delivery was sent and mirrored once, and a later one with its key was
\* answered from the ledger without a send and without a mirror.
C40_Witness ==
  \E q \in Pedidos : \E p \in pedido[q].precedentes :
    /\ pedido[p].entregues = 1
    /\ pedido[p].espelhos = 1
    /\ pedido[q].pc = "feito"
    /\ pedido[q].resultado.tipo = "ok"
    /\ pedido[q].resultado.deduplicated
    /\ ~pedido[q].enviou
    /\ pedido[q].espelhos = 0

\* A delivery was retried, comRetry rethrew, and no mirror was called; the
\* other delivery was sent and mirrored.
FalhaSemEspelho ==
  \E p, q \in Pedidos :
    /\ EntregaFalhou(p)
    /\ pedido[p].resultado.tipo \in {"erro", "http"}
    /\ pedido[p].espelhos = 0
    /\ pedido[q].entregues = 1
    /\ pedido[q].espelhos = 1

=============================================================================
